---- MODULE Spec2Model ----
(***************************************************************************)
(* Model of the stdio JSON-RPC transport of scripts/mcp_smoke_test.py      *)
(* (the same client is repeated in mcp_e2e_regression.py and               *)
(* capture_demo_tool_calls.py): the frame codec, the incremental reader,   *)
(* the id filter and the staged shutdown of the child process.             *)
(*                                                                         *)
(* Bytes are integers 0..255, byte strings are sequences of them, text is  *)
(* a sequence of code points.  Python indices are 0-based; the operators   *)
(* below keep Python's indices and convert at each sequence access.        *)
(***************************************************************************)
EXTENDS Integers, Sequences, FiniteSets, TLC

(***************************************************************************)
(* Byte strings                                                            *)
(***************************************************************************)
\* b"\r\n\r\n" and b"\n\n", the two header terminators of _find_header_end
CRLFCRLF == <<13, 10, 13, 10>>
LFLF == <<10, 10>>
\* "content-length", the key _parse_content_length compares with
ContentLengthKey == <<99,111,110,116,101,110,116,45,108,101,110,103,116,104>>
\* "Content-Length: ", the header text send() writes before the length
ContentLengthPrefix == <<67,111,110,116,101,110,116,45,76,101,110,103,116,104,58,32>>

\* buf[lo:hi] of Python (0-based, hi exclusive, clipped to the length)
Slice(buf, lo, hi) ==
    LET h == IF hi > Len(buf) THEN Len(buf) ELSE hi
    IN  IF lo >= h THEN <<>> ELSE SubSeq(buf, lo + 1, h)

\* buf.find(pat): the 0-based index of the first occurrence, or -1
Find(buf, pat) ==
    LET First(hits) == IF hits = {} THEN -1 ELSE CHOOSE i \in hits : \A j \in hits : i <= j
    IN  First({i \in 0..(Len(buf) - Len(pat)) : Slice(buf, i, i + Len(pat)) = pat})

\* bytes.decode("utf-8", errors="replace"), for the 1- and 2-byte forms:
\* an ASCII byte is its code point (so pure ASCII decodes to itself), a
\* lead byte C2..DF with a continuation byte is one code point, any other
\* byte becomes U+FFFD.
RECURSIVE Utf8Replace(_)
Utf8Replace(b) ==
    IF \A i \in 1..Len(b) : b[i] < 128 THEN b
    ELSE IF b[1] < 128 THEN <<b[1]>> \o Utf8Replace(Tail(b))
    ELSE IF b[1] \in 194..223 /\ Len(b) >= 2 /\ b[2] \in 128..191
         THEN <<(b[1] - 192) * 64 + (b[2] - 128)>> \o Utf8Replace(Tail(Tail(b)))
    ELSE <<65533>> \o Utf8Replace(Tail(b))

\* the code points str.strip() removes (str.isspace), up to U+07FF
IsSpace(c) == c \in (9..13) \cup (28..32) \cup {133, 160}

RECURSIVE LStrip(_)
LStrip(t) == IF t # <<>> /\ IsSpace(t[1]) THEN LStrip(Tail(t)) ELSE t

RECURSIVE RStrip(_)
RStrip(t) ==
    IF t # <<>> /\ IsSpace(t[Len(t)]) THEN RStrip(SubSeq(t, 1, Len(t) - 1)) ELSE t

\* str.strip()
Strip(t) == RStrip(LStrip(t))

\* str.lower(): A-Z fold to a-z; no other code point up to U+07FF folds
\* to an ASCII letter
Lower(t) == [i \in 1..Len(t) |-> IF t[i] \in 65..90 THEN t[i] + 32 ELSE t[i]]

\* the decimal digits int() accepts: ASCII, Arabic-Indic, Extended
\* Arabic-Indic and NKo digits (the ones up to U+07FF)
IsDecimal(c) == c \in (48..57) \cup (1632..1641) \cup (1776..1785) \cup (1984..1993)

\* str.isdigit() is true of the decimal digits and also of the superscript
\* digits U+00B2, U+00B3 and U+00B9, which int() rejects
IsDigitChar(c) == IsDecimal(c) \/ c \in {178, 179, 185}

\* str.isdigit(): not empty and every character a digit
IsDigit(t) == t # <<>> /\ \A i \in 1..Len(t) : IsDigitChar(t[i])

DigitValue(c) ==
    IF c \in 48..57 THEN c - 48
    ELSE IF c \in 1632..1641 THEN c - 1632
    ELSE IF c \in 1776..1785 THEN c - 1776
    ELSE c - 1984

\* int(v) for a string of decimal digits
RECURSIVE IntOf(_)
IntOf(t) ==
    IF t = <<>> THEN 0 ELSE IntOf(SubSeq(t, 1, Len(t) - 1)) * 10 + DigitValue(t[Len(t)])

\* str(n).encode("ascii") for n >= 0, as the f-string of send() formats it
RECURSIVE DecimalBytes(_)
DecimalBytes(n) ==
    IF n < 10 THEN <<48 + n>> ELSE DecimalBytes(n \div 10) \o <<48 + (n % 10)>>

\* text.replace("\r\n", "\n"): done by halves, cut where no "\r\n" is
\* cut in two
RECURSIVE ReplaceCRLF(_)
ReplaceCRLF(t) ==
    IF Len(t) <= 1 THEN t
    ELSE IF Len(t) = 2 THEN (IF t = <<13, 10>> THEN <<10>> ELSE t)
    ELSE LET mid == Len(t) \div 2
             cut == IF t[mid] = 13 /\ t[mid + 1] = 10 THEN mid + 1 ELSE mid
         IN  ReplaceCRLF(SubSeq(t, 1, cut)) \o ReplaceCRLF(SubSeq(t, cut + 1, Len(t)))

\* text.split(sep) for a one-character separator: the sequence of pieces
RECURSIVE SplitOn(_, _)
SplitOn(t, sep) ==
    LET CutAt(i) ==
            IF i = -1 THEN <<t>>
            ELSE <<Slice(t, 0, i)>> \o SplitOn(Slice(t, i + 1, Len(t)), sep)
    IN  CutAt(Find(t, <<sep>>))

(***************************************************************************)
(* Header parsing                                                          *)
(***************************************************************************)
\* _find_header_end: the index of the first CRLFCRLF if there is one,
\* otherwise of the first LFLF, otherwise None (-1)
FindHeaderEnd(buf) ==
    LET OrElse(i) == IF i # -1 THEN i ELSE Find(buf, LFLF)
    IN  OrElse(Find(buf, CRLFCRLF))

\* What the loop of _parse_content_length does with one line:
\* "skip" (no colon, or another key), "none" (return None),
\* "value" (int(v) raises ValueError) or "int" with the number.
HeaderLine(line) ==
    LET KeyValue(k, v) ==
            IF Lower(Strip(k)) # ContentLengthKey THEN [op |-> "skip", n |-> 0]
            ELSE IF ~IsDigit(v) THEN [op |-> "none", n |-> 0]
            ELSE IF \E i \in 1..Len(v) : ~IsDecimal(v[i]) THEN [op |-> "value", n |-> 0]
            ELSE [op |-> "int", n |-> IntOf(v)]
        SplitAt(c) ==
            IF c = -1 THEN [op |-> "skip", n |-> 0]
            ELSE KeyValue(Slice(line, 0, c), Strip(Slice(line, c + 1, Len(line))))
    IN  SplitAt(Find(line, <<58>>))

RECURSIVE FirstLength(_)
FirstLength(lines) ==
    IF lines = <<>> THEN [op |-> "none", n |-> 0]
    ELSE LET Decided(r) == IF r.op = "skip" THEN FirstLength(Tail(lines)) ELSE r
         IN  Decided(HeaderLine(lines[1]))

\* _parse_content_length(header): the first Content-Length line decides
ParseContentLength(header) ==
    FirstLength(SplitOn(ReplaceCRLF(Utf8Replace(header)), 10))

(***************************************************************************)
(* JSON values                                                             *)
(*                                                                         *)
(* A JSON value is a record of one shape: type is "num", "str", "obj" or   *)
(* "arr"; an object's items are its key/value pairs (a Python dict: one    *)
(* value per key, no order), an array's items are keyed by <<index>>.      *)
(* The subset modelled is what the frames of this model are made of:       *)
(* non-negative integers, strings, arrays and objects, with JSON           *)
(* whitespace and the short backslash escapes.                             *)
(***************************************************************************)
JNum(n) == [type |-> "num", num |-> n, str |-> <<>>, items |-> {}]
JStr(s) == [type |-> "str", num |-> 0, str |-> s, items |-> {}]
JObj(S) == [type |-> "obj", num |-> 0, str |-> <<>>, items |-> S]
JArr(S) == [type |-> "arr", num |-> 0, str |-> <<>>, items |-> S]

\* a dict literal in source order: the pairs of a message as the caller
\* wrote them; a later pair replaces an earlier one with the same key
RECURSIVE DictItems(_)
DictItems(pairs) ==
    IF pairs = <<>> THEN {}
    ELSE LET last == pairs[Len(pairs)]
             rest == DictItems(SubSeq(pairs, 1, Len(pairs) - 1))
         IN  {e \in rest : e.k # last.k} \cup {last}

\* the dict a message (a sequence of pairs) denotes
AsDict(pairs) == JObj(DictItems(pairs))

\* one iteration order of a nested dict's items
RECURSIVE ItemSeq(_)
ItemSeq(S) ==
    IF S = {} THEN <<>>
    ELSE LET e == CHOOSE x \in S : TRUE IN <<e>> \o ItemSeq(S \ {e})

\* json.dumps of one character (ensure_ascii, ASCII input): a quote, a
\* backslash and the control characters \n, \r, \t are written as escapes
EscapeChar(c) ==
    IF c = 34 THEN <<92, 34>>
    ELSE IF c = 92 THEN <<92, 92>>
    ELSE IF c = 10 THEN <<92, 110>>
    ELSE IF c = 13 THEN <<92, 114>>
    ELSE IF c = 9 THEN <<92, 116>>
    ELSE <<c>>

\* json.dumps of the characters of a string, each on its own: done by
\* halves
RECURSIVE EscapeString(_)
EscapeString(s) ==
    IF s = <<>> THEN <<>>
    ELSE IF Len(s) = 1 THEN EscapeChar(s[1])
    ELSE LET mid == Len(s) \div 2
         IN  EscapeString(SubSeq(s, 1, mid)) \o EscapeString(SubSeq(s, mid + 1, Len(s)))

DumpsString(s) == <<34>> \o EscapeString(s) \o <<34>>

\* json.dumps(value, separators=(",", ":")): no whitespace anywhere
RECURSIVE DumpsValue(_)
RECURSIVE DumpsMembers(_)
RECURSIVE DumpsElements(_, _)
DumpsValue(v) ==
    IF v.type = "num" THEN DecimalBytes(v.num)
    ELSE IF v.type = "str" THEN DumpsString(v.str)
    ELSE IF v.type = "obj" THEN <<123>> \o DumpsMembers(ItemSeq(v.items)) \o <<125>>
    ELSE <<91>> \o DumpsElements(v.items, 0) \o <<93>>

DumpsMembers(pairs) ==
    IF pairs = <<>> THEN <<>>
    ELSE DumpsString(pairs[1].k) \o <<58>> \o DumpsValue(pairs[1].v)
         \o (IF Len(pairs) > 1 THEN <<44>> ELSE <<>>) \o DumpsMembers(Tail(pairs))

DumpsElements(S, i) ==
    IF i >= Cardinality(S) THEN <<>>
    ELSE LET e == CHOOSE x \in S : x.k = <<i>>
         IN  (IF i > 0 THEN <<44>> ELSE <<>>) \o DumpsValue(e.v) \o DumpsElements(S, i + 1)

\* json.dumps(message, separators=(",", ":")).encode("utf-8") of send()
Dumps(pairs) == <<123>> \o DumpsMembers(pairs) \o <<125>>

\* the failed result of a parsing step
ParseFail == [ok |-> FALSE, v |-> JNum(0), next |-> 0]

\* JSON whitespace: the index of the first character at or after i that is
\* not a space, tab, line feed or carriage return (1-based)
RECURSIVE SkipWs(_, _)
SkipWs(t, i) ==
    IF i <= Len(t) /\ t[i] \in {32, 9, 10, 13} THEN SkipWs(t, i + 1) ELSE i

\* how many backslashes stand in a row right before index j, from i on
RunBefore(t, i, j) ==
    IF j <= i \/ t[j - 1] # 92 THEN 0
    ELSE Cardinality({k \in i..(j - 1) : \A m \in k..(j - 1) : t[m] = 92})

\* the character an escape stands for
Unescaped(e) ==
    IF e = 110 THEN 10 ELSE IF e = 114 THEN 13 ELSE IF e = 116 THEN 9
    ELSE IF e = 98 THEN 8 ELSE IF e = 102 THEN 12 ELSE e

\* the characters the text c between two quotes stands for; a raw control
\* character or a backslash without one of " \ / b f n r t after it is an
\* error (\uXXXX is outside the subset).  The text is cut in two between
\* escapes and each half is done on its own.
RECURSIVE Unescape(_)
Unescape(c) ==
    IF \A p \in 1..Len(c) : c[p] # 92
    THEN [ok |-> \A p \in 1..Len(c) : c[p] >= 32, s |-> c]
    ELSE IF Len(c) = 1 THEN [ok |-> FALSE, s |-> <<>>]
    ELSE IF Len(c) = 2
    THEN IF c[1] = 92 /\ c[2] \in {34, 92, 47, 98, 102, 110, 114, 116}
         THEN [ok |-> TRUE, s |-> <<Unescaped(c[2])>>]
         ELSE [ok |-> FALSE, s |-> <<>>]
    ELSE LET mid == Len(c) \div 2
             starts == c[mid] = 92 /\ RunBefore(c, 1, mid) % 2 = 0
             cut == IF ~starts THEN mid ELSE IF mid = 1 THEN 2 ELSE mid - 1
             Joined(l, r) ==
                 IF l.ok /\ r.ok THEN [ok |-> TRUE, s |-> l.s \o r.s]
                 ELSE [ok |-> FALSE, s |-> <<>>]
         IN  Joined(Unescape(SubSeq(c, 1, cut)), Unescape(SubSeq(c, cut + 1, Len(c))))

\* a JSON string from index i (after the opening quote): the closing
\* quote is the first quote with an even number of backslashes before it
StringFrom(t, i) ==
    LET Closed(end, u) ==
            IF u.ok THEN [ok |-> TRUE, s |-> u.s, next |-> end + 1]
            ELSE [ok |-> FALSE, s |-> <<>>, next |-> 0]
        EndsAt(end) == Closed(end, Unescape(SubSeq(t, i, end - 1)))
        Among(closers) ==
            IF closers = {} THEN [ok |-> FALSE, s |-> <<>>, next |-> 0]
            ELSE EndsAt(CHOOSE j \in closers : \A k \in closers : j <= k)
    IN  Among({j \in i..Len(t) : t[j] = 34 /\ RunBefore(t, i, j) % 2 = 0})

\* the index after the run of ASCII digits starting at i
RECURSIVE DigitsEnd(_, _)
DigitsEnd(t, i) == IF i <= Len(t) /\ t[i] \in 48..57 THEN DigitsEnd(t, i + 1) ELSE i

\* a JSON integer at i: "0" or a digit run without a leading zero; a
\* fraction or an exponent is outside the subset
NumberAt(t, i) ==
    LET Upto(j) ==
            IF j <= Len(t) /\ t[j] \in {46, 69, 101} THEN ParseFail
            ELSE [ok |-> TRUE, v |-> JNum(IntOf(SubSeq(t, i, j - 1))), next |-> j]
    IN  Upto(IF t[i] = 48 THEN i + 1 ELSE DigitsEnd(t, i))

RECURSIVE ParseValue(_, _)
RECURSIVE ParseMembers(_, _, _)
RECURSIVE ParseElements(_, _, _)
\* one JSON value starting at or after index i
ParseValue(t, i0) ==
    LET Object(j) ==
            IF j <= Len(t) /\ t[j] = 125
            THEN [ok |-> TRUE, v |-> JObj({}), next |-> j + 1]
            ELSE ParseMembers(t, j, {})
        Array(j) ==
            IF j <= Len(t) /\ t[j] = 93
            THEN [ok |-> TRUE, v |-> JArr({}), next |-> j + 1]
            ELSE ParseElements(t, j, {})
        String(s) ==
            IF s.ok THEN [ok |-> TRUE, v |-> JStr(s.s), next |-> s.next] ELSE ParseFail
        At(i) ==
            IF i > Len(t) THEN ParseFail
            ELSE IF t[i] = 123 THEN Object(SkipWs(t, i + 1))
            ELSE IF t[i] = 91 THEN Array(SkipWs(t, i + 1))
            ELSE IF t[i] = 34 THEN String(StringFrom(t, i + 1))
            ELSE IF t[i] \in 48..57 THEN NumberAt(t, i)
            ELSE ParseFail
    IN  At(SkipWs(t, i0))

\* the members of an object from the key at index i; a repeated key keeps
\* the last value
ParseMembers(t, i, acc) ==
    LET After(acc2, d) ==
            IF d > Len(t) THEN ParseFail
            ELSE IF t[d] = 125 THEN [ok |-> TRUE, v |-> JObj(acc2), next |-> d + 1]
            ELSE IF t[d] = 44 THEN ParseMembers(t, SkipWs(t, d + 1), acc2)
            ELSE ParseFail
        Member(key, val) ==
            IF ~val.ok THEN ParseFail
            ELSE After({e \in acc : e.k # key.s} \cup {[k |-> key.s, v |-> val.v]},
                       SkipWs(t, val.next))
        Colon(key, c) ==
            IF c > Len(t) \/ t[c] # 58 THEN ParseFail
            ELSE Member(key, ParseValue(t, c + 1))
        Key(key) == IF ~key.ok THEN ParseFail ELSE Colon(key, SkipWs(t, key.next))
    IN  IF i > Len(t) \/ t[i] # 34 THEN ParseFail
        ELSE Key(StringFrom(t, i + 1))

\* the elements of an array from the value at index i
ParseElements(t, i, acc) ==
    LET After(acc2, d) ==
            IF d > Len(t) THEN ParseFail
            ELSE IF t[d] = 93 THEN [ok |-> TRUE, v |-> JArr(acc2), next |-> d + 1]
            ELSE IF t[d] = 44 THEN ParseElements(t, d + 1, acc2)
            ELSE ParseFail
        Element(val) ==
            IF ~val.ok THEN ParseFail
            ELSE After(acc \cup {[k |-> <<Cardinality(acc)>>, v |-> val.v]},
                       SkipWs(t, val.next))
    IN  Element(ParseValue(t, i))

\* json.loads(body.decode("utf-8")): ok is FALSE when the bytes are not
\* UTF-8 or not one JSON value (trailing whitespace allowed, nothing else)
Loads(body) ==
    LET Whole(t, r) == IF r.ok /\ SkipWs(t, r.next) > Len(t) THEN r ELSE ParseFail
        Text(t) ==
            IF \E i \in 1..Len(t) : t[i] = 65533 THEN ParseFail
            ELSE Whole(t, ParseValue(t, 1))
    IN  Text(Utf8Replace(body))

(***************************************************************************)
(* Frame codec                                                             *)
(***************************************************************************)
\* send(): the frame written for a message, "Content-Length: n\r\n\r\n"
\* followed by the n bytes of the compact JSON
SendFrame(pairs) ==
    LET Framed(payload) ==
            ContentLengthPrefix \o DecimalBytes(Len(payload)) \o CRLFCRLF \o payload
    IN  Framed(Dumps(pairs))

\* body_start that takes every terminator for the short one
BodyStartShort(buf, header_end) == header_end + 2

\* body_start of _try_parse_one: 4 bytes after header_end when a CRLFCRLF
\* stands there, 2 bytes after it otherwise
BodyStart(buf, header_end) ==
    header_end + (IF Slice(buf, header_end, header_end + 4) = CRLFCRLF THEN 4 ELSE 2)

\* the length test that is content with one byte less
NeedMoreButOne(buf, frame_end) == Len(buf) < frame_end - 1

\* line 145: len(self._buffer) < body_start + content_length
NeedMore(buf, frame_end) == Len(buf) < frame_end

\* the result of one decode attempt: kind is
\*   "none"     return None, nothing consumed
\*   "msg"      return msg, the frame consumed
\*   "header"   SmokeTestError("Invalid MCP frame header ..."), nothing consumed
\*   "value"    ValueError out of int(v), nothing consumed
\*   "json"     SmokeTestError("Failed to decode JSON response ..."), frame consumed
\*   "notobj"   SmokeTestError("MCP response is not a JSON object ..."), frame consumed
ParseResult(kind, msg, buf) == [kind |-> kind, msg |-> msg, buffer |-> buf]

\* the value standing for "no message" in a result
NoMsg == JNum(0)

\* a decode that drops the header section it could not use
TryParseOneSkipBadHeader(buf) ==
    LET \* lines 151-158: json.loads of the body, the frame already deleted
        Body(parsed, rest) ==
            IF ~parsed.ok THEN ParseResult("json", NoMsg, rest)
            ELSE IF parsed.v.type # "obj" THEN ParseResult("notobj", NoMsg, rest)
            ELSE ParseResult("msg", parsed.v, rest)
        \* lines 145-149
        FrameTo(body_start, frame_end) ==
            IF NeedMore(buf, frame_end) THEN ParseResult("none", NoMsg, buf)
            ELSE Body(Loads(Slice(buf, body_start, frame_end)),
                      Slice(buf, frame_end, Len(buf)))
        \* lines 141-143
        Header(body_start, content_length) ==
            IF content_length.op = "none"
            THEN ParseResult("header", NoMsg, Slice(buf, body_start, Len(buf)))
            ELSE IF content_length.op = "value"
            THEN ParseResult("value", NoMsg, Slice(buf, body_start, Len(buf)))
            ELSE FrameTo(body_start, body_start + content_length.n)
        \* lines 136-141
        HeaderEnd(header_end) ==
            IF header_end = -1 THEN ParseResult("none", NoMsg, buf)
            ELSE Header(BodyStart(buf, header_end),
                        ParseContentLength(Slice(buf, 0, header_end)))
    IN  IF buf = <<>> THEN ParseResult("none", NoMsg, buf)
        ELSE HeaderEnd(FindHeaderEnd(buf))

\* a decode that raises on the body before it deletes the frame
TryParseOneKeepBadBody(buf) ==
    LET \* lines 151-158: json.loads of the body, the frame already deleted
        Body(parsed, rest) ==
            IF ~parsed.ok THEN ParseResult("json", NoMsg, buf)
            ELSE IF parsed.v.type # "obj" THEN ParseResult("notobj", NoMsg, buf)
            ELSE ParseResult("msg", parsed.v, rest)
        \* lines 145-149
        FrameTo(body_start, frame_end) ==
            IF NeedMore(buf, frame_end) THEN ParseResult("none", NoMsg, buf)
            ELSE Body(Loads(Slice(buf, body_start, frame_end)),
                      Slice(buf, frame_end, Len(buf)))
        \* lines 141-143
        Header(body_start, content_length) ==
            IF content_length.op = "none" THEN ParseResult("header", NoMsg, buf)
            ELSE IF content_length.op = "value" THEN ParseResult("value", NoMsg, buf)
            ELSE FrameTo(body_start, body_start + content_length.n)
        \* lines 136-141
        HeaderEnd(header_end) ==
            IF header_end = -1 THEN ParseResult("none", NoMsg, buf)
            ELSE Header(BodyStart(buf, header_end),
                        ParseContentLength(Slice(buf, 0, header_end)))
    IN  IF buf = <<>> THEN ParseResult("none", NoMsg, buf)
        ELSE HeaderEnd(FindHeaderEnd(buf))

\* a decoder that empties the buffer when it takes a frame from it
TryParseOneClear(buf) ==
    LET Body(parsed, rest) ==
            IF ~parsed.ok THEN ParseResult("json", NoMsg, rest)
            ELSE IF parsed.v.type # "obj" THEN ParseResult("notobj", NoMsg, rest)
            ELSE ParseResult("msg", parsed.v, rest)
        FrameTo(body_start, frame_end) ==
            IF NeedMore(buf, frame_end) THEN ParseResult("none", NoMsg, buf)
            ELSE Body(Loads(Slice(buf, body_start, frame_end)), <<>>)
        Header(body_start, content_length) ==
            IF content_length.op = "none" THEN ParseResult("header", NoMsg, buf)
            ELSE IF content_length.op = "value" THEN ParseResult("value", NoMsg, buf)
            ELSE FrameTo(body_start, body_start + content_length.n)
        HeaderEnd(header_end) ==
            IF header_end = -1 THEN ParseResult("none", NoMsg, buf)
            ELSE Header(BodyStart(buf, header_end),
                        ParseContentLength(Slice(buf, 0, header_end)))
    IN  IF buf = <<>> THEN ParseResult("none", NoMsg, buf)
        ELSE HeaderEnd(FindHeaderEnd(buf))

\* a decoder that returns whatever value the body holds
TryParseOneAnyValue(buf) ==
    LET Body(parsed, rest) ==
            IF ~parsed.ok THEN ParseResult("json", NoMsg, rest)
            ELSE ParseResult("msg", parsed.v, rest)
        FrameTo(body_start, frame_end) ==
            IF NeedMore(buf, frame_end) THEN ParseResult("none", NoMsg, buf)
            ELSE Body(Loads(Slice(buf, body_start, frame_end)),
                      Slice(buf, frame_end, Len(buf)))
        Header(body_start, content_length) ==
            IF content_length.op = "none" THEN ParseResult("header", NoMsg, buf)
            ELSE IF content_length.op = "value" THEN ParseResult("value", NoMsg, buf)
            ELSE FrameTo(body_start, body_start + content_length.n)
        HeaderEnd(header_end) ==
            IF header_end = -1 THEN ParseResult("none", NoMsg, buf)
            ELSE Header(BodyStart(buf, header_end),
                        ParseContentLength(Slice(buf, 0, header_end)))
    IN  IF buf = <<>> THEN ParseResult("none", NoMsg, buf)
        ELSE HeaderEnd(FindHeaderEnd(buf))

\* _try_parse_one on the buffer buf
TryParseOne(buf) ==
    LET \* lines 151-158: json.loads of the body, the frame already deleted
        Body(parsed, rest) ==
            IF ~parsed.ok THEN ParseResult("json", NoMsg, rest)
            ELSE IF parsed.v.type # "obj" THEN ParseResult("notobj", NoMsg, rest)
            ELSE ParseResult("msg", parsed.v, rest)
        \* lines 145-149
        FrameTo(body_start, frame_end) ==
            IF NeedMore(buf, frame_end) THEN ParseResult("none", NoMsg, buf)
            ELSE Body(Loads(Slice(buf, body_start, frame_end)),
                      Slice(buf, frame_end, Len(buf)))
        \* lines 141-143
        Header(body_start, content_length) ==
            IF content_length.op = "none" THEN ParseResult("header", NoMsg, buf)
            ELSE IF content_length.op = "value" THEN ParseResult("value", NoMsg, buf)
            ELSE FrameTo(body_start, body_start + content_length.n)
        \* lines 136-141
        HeaderEnd(header_end) ==
            IF header_end = -1 THEN ParseResult("none", NoMsg, buf)
            ELSE Header(BodyStart(buf, header_end),
                        ParseContentLength(Slice(buf, 0, header_end)))
    IN  IF buf = <<>> THEN ParseResult("none", NoMsg, buf)
        ELSE HeaderEnd(FindHeaderEnd(buf))

\* a complete frame stands at the head of buf
FrameReady(buf) == TryParseOne(buf).kind = "msg"

(***************************************************************************)
(* The child's output: the frames a server may write to its stdout         *)
(***************************************************************************)
KeyId == <<105, 100>>
KeyMethod == <<109, 101, 116, 104, 111, 100>>
KeyResult == <<114, 101, 115, 117, 108, 116>>

\* {"id":i}: the response to request i, cut down to its id
Response(i) == <<[k |-> KeyId, v |-> JNum(i)]>>
\* {"method":"n"}: a notification, which carries no id
Notification == <<[k |-> KeyMethod, v |-> JStr(<<110>>)]>>

\* a frame with the given header text, terminator and body
Frame(header, term, body) == header \o term \o body
\* a well-formed frame around body with the given terminator
FrameOf(term, body) == Frame(ContentLengthPrefix \o DecimalBytes(Len(body)), term, body)

\* the ids a caller awaits
RequestIds == {1, 2}

\* the messages a server writes in this model, and their frames
ChildMessages == {Notification, Response(1)}
WellFormedFrames == {SendFrame(m) : m \in ChildMessages}
\* the message a well-formed frame carries
MessageOf(frame) == AsDict(CHOOSE m \in ChildMessages : SendFrame(m) = frame)

\* frames that are no response at all: a notification
UnrelatedFrames == {SendFrame(Notification)}

\* the frame a stream ends with: a response in either framing, a frame
\* whose header lacks Content-Length ("X: 1"), a frame whose body is the
\* array [1], or (the empty sequence) no further frame
LastFrames ==
    { <<>>,
      SendFrame(Response(1)),
      FrameOf(LFLF, Dumps(Response(1))),
      Frame(<<88, 58, 32, 49>>, CRLFCRLF, Dumps(Response(1))),
      FrameOf(CRLFCRLF, <<91, 49, 93>>) }

\* how many unrelated frames may precede the last frame of a stream
MaxUnrelated == 1

RECURSIVE Concat(_)
Concat(fs) == IF fs = <<>> THEN <<>> ELSE fs[1] \o Concat(Tail(fs))

\* the streams a child may write: up to MaxUnrelated unrelated frames, then
\* at most one last frame; each stream is the sequence of its frames
Streams ==
    UNION { { pre \o (IF last = <<>> THEN <<>> ELSE <<last>>) :
              pre \in [1..n -> UnrelatedFrames], last \in LastFrames }
            : n \in 0..MaxUnrelated }

(***************************************************************************)
(* State                                                                   *)
(*                                                                         *)
(* The clock is kept as the time left to each deadline (0 once it has      *)
(* passed): where the code sets deadline = time.monotonic() + t the model  *)
(* sets the timer to t, where it computes deadline - time.monotonic() the  *)
(* model reads the timer, and a tick of the clock takes one from every     *)
(* running timer.                                                          *)
(***************************************************************************)
VARIABLES
    buffer,        \* MCPStdioClient._buffer
    selectorOpen,  \* the selector of the client is not closed
    pc,            \* where the caller's thread is: "idle" or a line of an operation
    caller,        \* who called recv_message: "direct" or "rr" (recv_response_for_id)
    requestId,     \* request_id of the running recv_response_for_id
    rrLeft,        \* recv_response_for_id: deadline - time.monotonic()
    timeoutArg,    \* timeout_s handed to recv_message
    rmLeft,        \* recv_message: deadline - time.monotonic()
    outcome,       \* how the last operation ended ("running" while one runs)
    delivered,     \* history: the messages recv_message returned, in order
    lastDelivery,  \* history: the circumstances of the message this recv_message returned
    ready,         \* history: a complete frame stood in the buffer at the call or
                   \* at the return of the message before
    skipped,       \* history: the messages the last receive decoded and skipped
    ioSinceReturn, \* history: a select/read ran since recv_message last returned a message
    partialSeen,   \* history: a decode attempt since then found an incomplete frame
    timedOut,      \* history: the last receive failed with a timeout
    sending,       \* the message send() is writing (<<>> outside send)
    sent,          \* the frames written to the child's stdin, in order
    frames,        \* the stream the child set out to write (fixed per run)
    stream,        \* the bytes of it the client has not read yet
    alive,         \* the child process has not exited (proc.poll() is None)
    stdinOpen,     \* proc.stdin is not closed
    graceLeft,     \* _terminate_process: deadline - time.monotonic()
    waitLeft,      \* the time left of proc.wait(timeout=2.0)
    events,        \* history: the steps the last _terminate_process took
    signalled,     \* the signals delivered to the living child
    exitPhase,     \* history: what the child was facing when it exited
    stdinPipe,     \* the bytes in the pipe to the child's stdin it has not read
    returncode,    \* what proc.poll() returns: None, or the exit code of the child
    closedCode,    \* history: the code in the last "stdout closed" error
    stdoutOpen,    \* the child has not closed its stdout
    stderrPipe,    \* the lines in the pipe from the child's stderr not read yet
    diagLeft,      \* the diagnostic lines the child writes before it answers
    pumping,       \* the thread of _pump_stderr is in its loop
    sink,          \* the lines _pump_stderr has appended to its sink
    errWritten     \* history: the lines the child has written to its stderr

vars == <<buffer, selectorOpen, pc, caller, requestId, rrLeft, timeoutArg, rmLeft,
          outcome, delivered, lastDelivery, ready, skipped, ioSinceReturn, partialSeen,
          timedOut, sending, sent, frames, stream, alive, stdinOpen, graceLeft,
          waitLeft, events, signalled, exitPhase, stdinPipe, returncode, closedCode,
          stdoutOpen, stderrPipe, diagLeft, pumping, sink, errWritten>>

receiveLocals == <<caller, requestId, rrLeft, timeoutArg, rmLeft>>
receiveVars == <<buffer, delivered, lastDelivery, ready, skipped, ioSinceReturn,
                 partialSeen, timedOut>>
sendVars == <<sending, sent>>
childVars == <<frames, stream, alive, signalled, exitPhase>>
shutdownVars == <<stdinOpen, graceLeft, waitLeft, events>>
exitVars == <<returncode, closedCode, stdoutOpen>>
diagVars == <<stderrPipe, diagLeft, pumping, sink, errWritten>>
pipeVars == <<stdinPipe, exitVars, diagVars>>

(***************************************************************************)
(* Bounds of the model                                                     *)
(***************************************************************************)
\* the timeout_s the collaborator passes to a receive, in ticks
TimeoutTicks == 1
\* grace_s of _terminate_process in ticks (one tick is one time.sleep(0.05))
GraceTicks == 2
\* the timeout of proc.wait(timeout=2.0) in ticks
WaitTicks == 1
\* the size argument of os.read
ReadSize == 4096
\* how many bytes the pipe to the child's stdin holds before a write to it
\* blocks; the frames of a whole run of run_smoke fit into it
PipeCapacity == 128

\* how many lines the pipe from the child's stderr holds before a write to
\* it blocks
StderrCapacity == 2
\* how many lines of diagnostic output a child writes before it answers
MaxDiag == 4

\* how an operation ended: op is the operation, kind is "ok" or the error
Outcome(op, kind, msg) == [op |-> op, kind |-> kind, msg |-> msg]

\* the messages run_smoke sends: requests 1 and 2, and a notification
Request(i) == <<[k |-> KeyId, v |-> JNum(i)], [k |-> KeyMethod, v |-> JStr(<<109>>)]>>

Min(a, b) == IF a <= b THEN a ELSE b

\* one tick less to a deadline
Dec(left) == IF left > 0 THEN left - 1 ELSE 0

\* Python's None, and a value that is not None
None == <<>>
Some(x) == <<x>>

\* no message has been returned yet
NoDelivery == [io |-> FALSE, split |-> FALSE, ready |-> FALSE]

\* the state after MCPStdioClient(proc, io_timeout_s) (lines 50-63), but
\* for the buffer, the thread's position and the child's output
Fresh ==
    /\ selectorOpen = TRUE
    /\ caller = "direct"
    /\ requestId = 0
    /\ rrLeft = 0
    /\ timeoutArg = 0
    /\ rmLeft = 0
    /\ outcome = Outcome("none", "ok", NoMsg)
    /\ delivered = <<>>
    /\ lastDelivery = NoDelivery
    /\ ready = FALSE
    /\ skipped = <<>>
    /\ ioSinceReturn = FALSE
    /\ partialSeen = FALSE
    /\ timedOut = FALSE
    /\ sent = <<>>
    /\ alive = TRUE
    /\ stdinOpen = TRUE
    /\ graceLeft = 0
    /\ waitLeft = 0
    /\ events = <<>>
    /\ signalled = {}
    /\ exitPhase = "none"
    /\ stdinPipe = 0
    /\ returncode = None
    /\ closedCode = None
    /\ stdoutOpen = TRUE
    /\ stderrPipe = <<>>
    /\ pumping = TRUE
    /\ sink = <<>>
    /\ errWritten = <<>>

\* a fresh client on a child that is to write the given frames, after diag
\* lines of diagnostic output
InitDiag(output, diag) ==
    /\ Fresh
    /\ buffer = <<>>
    /\ pc = "idle"
    /\ sending = <<>>
    /\ frames = output
    /\ stream = Concat(output)
    /\ diagLeft = diag

\* a fresh client on a child that is to write the given frames
InitWith(output) == InitDiag(output, 0)

Init == \E output \in Streams : InitWith(output)

\* an operation starts
Running(op) == Outcome(op, "running", NoMsg)

\* an operation ends: back to the collaborator with its outcome
Return(op, kind, msg) ==
    /\ pc' = "idle"
    /\ outcome' = Outcome(op, kind, msg)

\* a receive ends: its locals are gone
ReceiveReturn(op, kind, msg) ==
    /\ Return(op, kind, msg)
    /\ caller' = "direct"
    /\ requestId' = 0
    /\ rrLeft' = 0
    /\ timeoutArg' = 0
    /\ rmLeft' = 0
    /\ timedOut' = (kind = "timeout")

(***************************************************************************)
(* send (lines 71-83)                                                      *)
(***************************************************************************)
\* line 72-73: the collaborator calls send(message); an exited child
\* makes it raise before anything is written
SendPoll(message) ==
    /\ pc = "idle"
    /\ IF ~alive
       THEN Return("send", "exited", NoMsg) /\ UNCHANGED sending
       ELSE pc' = "send_write" /\ sending' = message /\ outcome' = Running("send")
    /\ UNCHANGED <<selectorOpen, sent>>
    /\ UNCHANGED receiveLocals /\ UNCHANGED receiveVars
    /\ UNCHANGED childVars /\ UNCHANGED shutdownVars
    /\ UNCHANGED pipeVars

\* the pipe to the child's stdin has room for the frame
RoomFor(frame) == Len(frame) <= PipeCapacity - stdinPipe

\* a send that, once the frame is written, reads what stdout holds
SendWriteThenRead ==
    /\ pc = "send_write"
    /\ ~stdinOpen \/ ~alive \/ RoomFor(SendFrame(sending))
    /\ sending' = <<>>
    /\ IF ~stdinOpen
       THEN /\ Return("send", "closed_file", NoMsg)
            /\ UNCHANGED <<sent, stdinPipe, buffer, stream>>
       ELSE IF ~alive
       THEN /\ Return("send", "broken_pipe", NoMsg)
            /\ UNCHANGED <<sent, stdinPipe, buffer, stream>>
       ELSE /\ Return("send", "ok", NoMsg)
            /\ sent' = Append(sent, SendFrame(sending))
            /\ stdinPipe' = stdinPipe + Len(SendFrame(sending))
            /\ buffer' = buffer \o stream
            /\ stream' = <<>>
    /\ UNCHANGED selectorOpen
    /\ UNCHANGED receiveLocals
    /\ UNCHANGED <<delivered, lastDelivery, ready, skipped, ioSinceReturn,
                   partialSeen, timedOut>>
    /\ UNCHANGED <<frames, alive, signalled, exitPhase>> /\ UNCHANGED shutdownVars
    /\ UNCHANGED exitVars /\ UNCHANGED diagVars

\* lines 75-83: the frame is written to stdin; writing to the closed file
\* object raises ValueError, writing to the pipe of an exited child raises
\* BrokenPipeError, which send turns into its own error.  stdin is a
\* blocking pipe (bufsize=0, line 303) and the write has no timeout: while
\* the pipe of a living child has no room for the frame the write blocks
SendWrite ==
    /\ pc = "send_write"
    /\ ~stdinOpen \/ ~alive \/ RoomFor(SendFrame(sending))
    /\ sending' = <<>>
    /\ IF ~stdinOpen
       THEN Return("send", "closed_file", NoMsg) /\ UNCHANGED <<sent, stdinPipe>>
       ELSE IF ~alive
       THEN Return("send", "broken_pipe", NoMsg) /\ UNCHANGED <<sent, stdinPipe>>
       ELSE /\ Return("send", "ok", NoMsg)
            /\ sent' = Append(sent, SendFrame(sending))
            /\ stdinPipe' = stdinPipe + Len(SendFrame(sending))
    /\ UNCHANGED selectorOpen
    /\ UNCHANGED receiveLocals /\ UNCHANGED receiveVars
    /\ UNCHANGED childVars /\ UNCHANGED shutdownVars
    /\ UNCHANGED exitVars /\ UNCHANGED diagVars

(***************************************************************************)
(* recv_message (lines 85-114)                                             *)
(***************************************************************************)
\* the name of the operation the collaborator is in while recv_message runs
ReceiveOp == IF caller = "rr" THEN "recv_response_for_id" ELSE "recv_message"

\* the collaborator calls recv_message(timeout_s)
CallRecvMessage ==
    /\ pc = "idle" /\ selectorOpen
    /\ pc' = "rm_enter"
    /\ outcome' = Running("recv_message")
    /\ caller' = "direct"
    /\ timeoutArg' = TimeoutTicks
    /\ lastDelivery' = NoDelivery
    /\ ready' = FrameReady(buffer)
    /\ skipped' = <<>>
    /\ timedOut' = FALSE
    /\ UNCHANGED <<requestId, rrLeft, rmLeft>>
    /\ UNCHANGED <<buffer, delivered, ioSinceReturn, partialSeen>>
    /\ UNCHANGED selectorOpen /\ UNCHANGED sendVars
    /\ UNCHANGED childVars /\ UNCHANGED shutdownVars
    /\ UNCHANGED pipeVars

\* a recv_message that waits for stdout before it tries the buffer
RmEnterWaitFirst ==
    /\ pc = "rm_enter"
    /\ rmLeft' = timeoutArg
    /\ timeoutArg' = 0
    /\ pc' = "rm_time"
    /\ UNCHANGED <<caller, requestId, rrLeft>>
    /\ UNCHANGED <<selectorOpen, outcome>>
    /\ UNCHANGED receiveVars /\ UNCHANGED sendVars
    /\ UNCHANGED childVars /\ UNCHANGED shutdownVars
    /\ UNCHANGED pipeVars

\* a recv_message that waits for the child's stdout before it tries the
\* buffer
RmEnterSelectFirst ==
    /\ pc = "rm_enter"
    /\ rmLeft' = timeoutArg
    /\ timeoutArg' = 0
    /\ pc' = "rm_time"
    /\ UNCHANGED <<caller, requestId, rrLeft>>
    /\ UNCHANGED <<selectorOpen, outcome>>
    /\ UNCHANGED receiveVars /\ UNCHANGED sendVars
    /\ UNCHANGED childVars /\ UNCHANGED shutdownVars
    /\ UNCHANGED pipeVars

\* lines 86-89: deadline = time.monotonic() + timeout_s, and into the loop,
\* which tries the buffer first
RmEnter ==
    /\ pc = "rm_enter"
    /\ rmLeft' = timeoutArg
    /\ timeoutArg' = 0
    /\ pc' = "rm_parse"
    /\ UNCHANGED <<caller, requestId, rrLeft>>
    /\ UNCHANGED <<selectorOpen, outcome>>
    /\ UNCHANGED receiveVars /\ UNCHANGED sendVars
    /\ UNCHANGED childVars /\ UNCHANGED shutdownVars
    /\ UNCHANGED pipeVars

\* an id test that takes any object
IdMatchesAny(msg, request_id) == msg.type = "obj"

\* line 127: isinstance(msg, dict) and msg.get("id") == request_id
IdMatches(msg, request_id) ==
    /\ msg.type = "obj"
    /\ \E e \in msg.items : e.k = KeyId /\ e.v = JNum(request_id)

\* the circumstances of a returned message: whether a select or read ran
\* since the previous return (io), whether the frame had been seen
\* incomplete (split), and whether it stood complete in the buffer when
\* the call started or the previous message was returned (ready)
Delivery == [io |-> ioSinceReturn, split |-> partialSeen, ready |-> ready]

\* a receive that leaves a frame it discards in the buffer
RmParseKeepDiscarded ==
    /\ pc = "rm_parse"
    /\ \E r \in {TryParseOne(buffer)} :
           IF r.kind = "none"
           THEN /\ buffer' = r.buffer
                /\ pc' = "rm_time"
                /\ partialSeen' = (partialSeen \/ buffer # <<>>)
                /\ UNCHANGED <<outcome, delivered, lastDelivery, ready, skipped,
                               ioSinceReturn, timedOut>>
                /\ UNCHANGED receiveLocals
           ELSE IF r.kind # "msg"
           THEN /\ buffer' = r.buffer
                /\ ReceiveReturn(ReceiveOp, r.kind, NoMsg)
                /\ UNCHANGED <<delivered, lastDelivery, ready, skipped, ioSinceReturn,
                               partialSeen>>
           ELSE /\ ioSinceReturn' = FALSE
                /\ partialSeen' = FALSE
                /\ delivered' = Append(delivered, r.msg)
                /\ lastDelivery' = Delivery
                /\ ready' = FrameReady(r.buffer)
                /\ IF caller = "direct" \/ IdMatches(r.msg, requestId)
                   THEN /\ buffer' = r.buffer
                        /\ ReceiveReturn(ReceiveOp, "ok", r.msg)
                        /\ UNCHANGED skipped
                   ELSE /\ buffer' = buffer
                        /\ pc' = "rr_check"
                        /\ skipped' = Append(skipped, r.msg)
                        /\ UNCHANGED <<outcome, timedOut>>
                        /\ UNCHANGED receiveLocals
    /\ UNCHANGED selectorOpen /\ UNCHANGED sendVars
    /\ UNCHANGED childVars /\ UNCHANGED shutdownVars
    /\ UNCHANGED pipeVars

\* lines 91-93, and for recv_response_for_id lines 125-129: the buffer is
\* tried first; a message ends recv_message, and recv_response_for_id
\* returns it when its id is the awaited one and loops otherwise
RmParse ==
    /\ pc = "rm_parse"
    /\ \E r \in {TryParseOne(buffer)} :
           /\ buffer' = r.buffer
           /\ IF r.kind = "none"
              THEN /\ pc' = "rm_time"
                   /\ partialSeen' = (partialSeen \/ buffer # <<>>)
                   /\ UNCHANGED <<outcome, delivered, lastDelivery, ready, skipped,
                                  ioSinceReturn, timedOut>>
                   /\ UNCHANGED receiveLocals
              ELSE IF r.kind # "msg"
              THEN /\ ReceiveReturn(ReceiveOp, r.kind, NoMsg)
                   /\ UNCHANGED <<delivered, lastDelivery, ready, skipped, ioSinceReturn,
                                  partialSeen>>
              ELSE /\ ioSinceReturn' = FALSE
                   /\ partialSeen' = FALSE
                   /\ delivered' = Append(delivered, r.msg)
                   /\ lastDelivery' = Delivery
                   /\ ready' = FrameReady(r.buffer)
                   /\ IF caller = "direct" \/ IdMatches(r.msg, requestId)
                      THEN /\ ReceiveReturn(ReceiveOp, "ok", r.msg)
                           /\ UNCHANGED skipped
                      ELSE /\ pc' = "rr_check"
                           /\ skipped' = Append(skipped, r.msg)
                           /\ UNCHANGED <<outcome, timedOut>>
                           /\ UNCHANGED receiveLocals
    /\ UNCHANGED selectorOpen /\ UNCHANGED sendVars
    /\ UNCHANGED childVars /\ UNCHANGED shutdownVars
    /\ UNCHANGED pipeVars

\* a timeout that throws the buffer away
RmTimeDrop ==
    /\ pc = "rm_time"
    /\ IF rmLeft <= 0
       THEN ReceiveReturn(ReceiveOp, "timeout", NoMsg) /\ buffer' = <<>>
       ELSE /\ pc' = "rm_select"
            /\ UNCHANGED <<outcome, timedOut, buffer>>
            /\ UNCHANGED receiveLocals
    /\ UNCHANGED <<delivered, lastDelivery, ready, skipped, ioSinceReturn, partialSeen>>
    /\ UNCHANGED selectorOpen /\ UNCHANGED sendVars
    /\ UNCHANGED childVars /\ UNCHANGED shutdownVars
    /\ UNCHANGED pipeVars

\* lines 96-98: remaining = deadline - time.monotonic()
RmTime ==
    /\ pc = "rm_time"
    /\ IF rmLeft <= 0
       THEN ReceiveReturn(ReceiveOp, "timeout", NoMsg)
       ELSE /\ pc' = "rm_select"
            /\ UNCHANGED <<outcome, timedOut>>
            /\ UNCHANGED receiveLocals
    /\ UNCHANGED <<buffer, delivered, lastDelivery, ready, skipped, ioSinceReturn,
                 partialSeen>>
    /\ UNCHANGED selectorOpen /\ UNCHANGED sendVars
    /\ UNCHANGED childVars /\ UNCHANGED shutdownVars
    /\ UNCHANGED pipeVars

\* the child runs with its stdout open: it may write more, and the pipe is
\* not at its end
Writing == alive /\ stdoutOpen

\* lines 100-102: select returns no event when the child wrote nothing in
\* the remaining time
RmSelectTimeout ==
    /\ pc = "rm_select"
    /\ Writing
    /\ ioSinceReturn' = TRUE
    /\ ReceiveReturn(ReceiveOp, "timeout", NoMsg)
    /\ UNCHANGED <<buffer, delivered, lastDelivery, ready, skipped, partialSeen>>
    /\ UNCHANGED selectorOpen /\ UNCHANGED sendVars
    /\ UNCHANGED childVars /\ UNCHANGED shutdownVars
    /\ UNCHANGED pipeVars

\* a read that replaces the buffer by the chunk instead of extending it
RmReadReplace(k) ==
    /\ pc = "rm_select"
    /\ k \in 1..Min(Len(stream), ReadSize)
    /\ Writing \/ k = Min(Len(stream), ReadSize)
    /\ Writing => diagLeft = 0
    /\ buffer' = SubSeq(stream, 1, k)
    /\ stream' = SubSeq(stream, k + 1, Len(stream))
    /\ ioSinceReturn' = TRUE
    /\ pc' = "rm_parse"
    /\ UNCHANGED receiveLocals
    /\ UNCHANGED <<delivered, lastDelivery, ready, skipped, partialSeen, timedOut>>
    /\ UNCHANGED <<selectorOpen, outcome>> /\ UNCHANGED sendVars
    /\ UNCHANGED <<frames, alive, signalled, exitPhase>> /\ UNCHANGED shutdownVars
    /\ UNCHANGED pipeVars

\* lines 100-114: stdout is readable and os.read returns the k bytes the
\* child has written so far (all that is left once the child has exited);
\* the chunk is appended to the buffer
RmRead(k) ==
    /\ pc = "rm_select"
    /\ k \in 1..Min(Len(stream), ReadSize)
    /\ Writing \/ k = Min(Len(stream), ReadSize)
    /\ Writing => diagLeft = 0
    /\ buffer' = buffer \o SubSeq(stream, 1, k)
    /\ stream' = SubSeq(stream, k + 1, Len(stream))
    /\ ioSinceReturn' = TRUE
    /\ pc' = "rm_parse"
    /\ UNCHANGED receiveLocals
    /\ UNCHANGED <<delivered, lastDelivery, ready, skipped, partialSeen, timedOut>>
    /\ UNCHANGED <<selectorOpen, outcome>> /\ UNCHANGED sendVars
    /\ UNCHANGED <<frames, alive, signalled, exitPhase>> /\ UNCHANGED shutdownVars
    /\ UNCHANGED pipeVars

\* lines 107-108: the read would block after all; back to the loop
RmWouldBlock ==
    /\ pc = "rm_select"
    /\ Writing
    /\ ioSinceReturn' = TRUE
    /\ pc' = "rm_parse"
    /\ UNCHANGED receiveLocals
    /\ UNCHANGED <<buffer, delivered, lastDelivery, ready, skipped, partialSeen,
                 timedOut>>
    /\ UNCHANGED <<selectorOpen, outcome>> /\ UNCHANGED sendVars
    /\ UNCHANGED childVars /\ UNCHANGED shutdownVars
    /\ UNCHANGED pipeVars

\* the error of line 112 without the look at the child
RmEofNoCode ==
    /\ pc = "rm_select"
    /\ ~Writing /\ stream = <<>>
    /\ ioSinceReturn' = TRUE
    /\ closedCode' = None
    /\ ReceiveReturn(ReceiveOp, "closed", NoMsg)
    /\ UNCHANGED <<buffer, delivered, lastDelivery, ready, skipped, partialSeen>>
    /\ UNCHANGED selectorOpen /\ UNCHANGED sendVars
    /\ UNCHANGED childVars /\ UNCHANGED shutdownVars
    /\ UNCHANGED <<stdinPipe, returncode, stdoutOpen>> /\ UNCHANGED diagVars

\* lines 110-112: os.read returns b"": the child's stdout is at its end;
\* code = self.proc.poll() goes into the error
RmEof ==
    /\ pc = "rm_select"
    /\ ~Writing /\ stream = <<>>
    /\ ioSinceReturn' = TRUE
    /\ closedCode' = returncode
    /\ ReceiveReturn(ReceiveOp, "closed", NoMsg)
    /\ UNCHANGED <<buffer, delivered, lastDelivery, ready, skipped, partialSeen>>
    /\ UNCHANGED selectorOpen /\ UNCHANGED sendVars
    /\ UNCHANGED childVars /\ UNCHANGED shutdownVars
    /\ UNCHANGED <<stdinPipe, returncode, stdoutOpen>> /\ UNCHANGED diagVars

(***************************************************************************)
(* recv_response_for_id (lines 116-129)                                    *)
(***************************************************************************)
\* lines 117-118: the collaborator calls recv_response_for_id(request_id,
\* timeout_s); deadline = time.monotonic() + timeout_s
CallRecvResponseForId(request_id) ==
    /\ pc = "idle" /\ selectorOpen
    /\ pc' = "rr_check"
    /\ outcome' = Running("recv_response_for_id")
    /\ caller' = "rr"
    /\ requestId' = request_id
    /\ rrLeft' = TimeoutTicks
    /\ lastDelivery' = NoDelivery
    /\ ready' = FrameReady(buffer)
    /\ skipped' = <<>>
    /\ timedOut' = FALSE
    /\ UNCHANGED <<timeoutArg, rmLeft>>
    /\ UNCHANGED <<buffer, delivered, ioSinceReturn, partialSeen>>
    /\ UNCHANGED selectorOpen /\ UNCHANGED sendVars
    /\ UNCHANGED childVars /\ UNCHANGED shutdownVars
    /\ UNCHANGED pipeVars

\* a loop that hands every recv_message the whole timeout again
RrCheckFullTimeout ==
    /\ pc = "rr_check"
    /\ pc' = "rm_enter"
    /\ timeoutArg' = TimeoutTicks
    /\ lastDelivery' = NoDelivery
    /\ UNCHANGED <<outcome, caller, requestId, rrLeft, rmLeft, timedOut>>
    /\ UNCHANGED <<buffer, delivered, ready, skipped, ioSinceReturn, partialSeen>>
    /\ UNCHANGED selectorOpen /\ UNCHANGED sendVars
    /\ UNCHANGED childVars /\ UNCHANGED shutdownVars
    /\ UNCHANGED pipeVars

\* lines 121-125: remaining = deadline - time.monotonic(); the rest of the
\* time is the timeout of the next recv_message, which has returned
\* nothing yet
RrCheck ==
    /\ pc = "rr_check"
    /\ IF rrLeft <= 0
       THEN /\ ReceiveReturn("recv_response_for_id", "timeout", NoMsg)
            /\ UNCHANGED lastDelivery
       ELSE /\ pc' = "rm_enter"
            /\ timeoutArg' = rrLeft
            /\ lastDelivery' = NoDelivery
            /\ UNCHANGED <<outcome, caller, requestId, rrLeft, rmLeft, timedOut>>
    /\ UNCHANGED <<buffer, delivered, ready, skipped, ioSinceReturn, partialSeen>>
    /\ UNCHANGED selectorOpen /\ UNCHANGED sendVars
    /\ UNCHANGED childVars /\ UNCHANGED shutdownVars
    /\ UNCHANGED pipeVars

\* a close that also closes the child's stdin
CloseWithStdin ==
    /\ pc = "idle"
    /\ selectorOpen' = FALSE
    /\ stdinOpen' = FALSE
    /\ Return("close", "ok", NoMsg)
    /\ UNCHANGED <<graceLeft, waitLeft, events>>
    /\ UNCHANGED receiveLocals /\ UNCHANGED receiveVars /\ UNCHANGED sendVars
    /\ UNCHANGED childVars
    /\ UNCHANGED pipeVars

(***************************************************************************)
(* close (lines 65-69)                                                     *)
(***************************************************************************)
\* the selector is closed; an error of the selector is swallowed
\* a close that raises on a selector that is closed
CloseOnce ==
    /\ pc = "idle"
    /\ selectorOpen' = FALSE
    /\ Return("close", IF selectorOpen THEN "ok" ELSE "closed_selector", NoMsg)
    /\ UNCHANGED receiveLocals /\ UNCHANGED receiveVars /\ UNCHANGED sendVars
    /\ UNCHANGED childVars /\ UNCHANGED shutdownVars
    /\ UNCHANGED pipeVars

Close ==
    /\ pc = "idle"
    /\ selectorOpen' = FALSE
    /\ Return("close", "ok", NoMsg)
    /\ UNCHANGED receiveLocals /\ UNCHANGED receiveVars /\ UNCHANGED sendVars
    /\ UNCHANGED childVars /\ UNCHANGED shutdownVars
    /\ UNCHANGED pipeVars

(***************************************************************************)
(* _terminate_process (lines 255-286)                                      *)
(***************************************************************************)
\* _terminate_process returns: its locals are gone
TerminateReturn ==
    /\ Return("terminate", "ok", NoMsg)
    /\ graceLeft' = 0
    /\ waitLeft' = 0

\* lines 256-257: the collaborator calls _terminate_process(proc); nothing
\* is done for a child that has exited
\* a shutdown that does not look at the child first
CallTerminateUnpolled ==
    /\ pc = "idle"
    /\ events' = <<>>
    /\ pc' = "tp_close"
    /\ outcome' = Running("terminate")
    /\ UNCHANGED <<graceLeft, waitLeft>>
    /\ UNCHANGED <<selectorOpen, stdinOpen>>
    /\ UNCHANGED receiveLocals /\ UNCHANGED receiveVars /\ UNCHANGED sendVars
    /\ UNCHANGED childVars
    /\ UNCHANGED pipeVars

CallTerminate ==
    /\ pc = "idle"
    /\ events' = <<>>
    /\ IF ~alive
       THEN TerminateReturn
       ELSE /\ pc' = "tp_close"
            /\ outcome' = Running("terminate")
            /\ UNCHANGED <<graceLeft, waitLeft>>
    /\ UNCHANGED <<selectorOpen, stdinOpen>>
    /\ UNCHANGED receiveLocals /\ UNCHANGED receiveVars /\ UNCHANGED sendVars
    /\ UNCHANGED childVars
    /\ UNCHANGED pipeVars

\* lines 259-265: stdin is closed (an error is swallowed) and the grace
\* deadline is set
TpClose ==
    /\ pc = "tp_close"
    /\ stdinOpen' = FALSE
    /\ events' = Append(events, "close_stdin")
    /\ graceLeft' = GraceTicks
    /\ pc' = "tp_loop"
    /\ UNCHANGED <<selectorOpen, outcome, waitLeft>>
    /\ UNCHANGED receiveLocals /\ UNCHANGED receiveVars /\ UNCHANGED sendVars
    /\ UNCHANGED childVars
    /\ UNCHANGED pipeVars

\* a grace loop that gives up after the first poll
TpLoopOnce ==
    /\ pc = "tp_loop"
    /\ pc' = IF graceLeft >= GraceTicks THEN "tp_poll" ELSE "tp_term"
    /\ UNCHANGED <<selectorOpen, outcome>>
    /\ UNCHANGED receiveLocals /\ UNCHANGED receiveVars /\ UNCHANGED sendVars
    /\ UNCHANGED childVars /\ UNCHANGED shutdownVars
    /\ UNCHANGED pipeVars

\* line 266: while time.monotonic() < deadline
TpLoop ==
    /\ pc = "tp_loop"
    /\ pc' = IF graceLeft > 0 THEN "tp_poll" ELSE "tp_term"
    /\ UNCHANGED <<selectorOpen, outcome>>
    /\ UNCHANGED receiveLocals /\ UNCHANGED receiveVars /\ UNCHANGED sendVars
    /\ UNCHANGED childVars /\ UNCHANGED shutdownVars
    /\ UNCHANGED pipeVars

\* lines 267-268: if proc.poll() is not None: return
TpPoll ==
    /\ pc = "tp_poll"
    /\ IF ~alive
       THEN TerminateReturn
       ELSE pc' = "tp_sleep" /\ UNCHANGED <<outcome, graceLeft, waitLeft>>
    /\ UNCHANGED <<selectorOpen, stdinOpen, events>>
    /\ UNCHANGED receiveLocals /\ UNCHANGED receiveVars /\ UNCHANGED sendVars
    /\ UNCHANGED childVars
    /\ UNCHANGED pipeVars

\* line 269: time.sleep(0.05), one tick
TpSleep ==
    /\ pc = "tp_sleep"
    /\ graceLeft' = Dec(graceLeft)
    /\ pc' = "tp_loop"
    /\ UNCHANGED <<selectorOpen, outcome, stdinOpen, waitLeft, events>>
    /\ UNCHANGED receiveLocals /\ UNCHANGED receiveVars /\ UNCHANGED sendVars
    /\ UNCHANGED childVars
    /\ UNCHANGED pipeVars

\* lines 272-278: proc.terminate() (an error is swallowed), then
\* proc.wait(timeout=2.0) starts; a living child receives SIGTERM
TpTerminate ==
    /\ pc = "tp_term"
    /\ events' = Append(events, "terminate")
    /\ signalled' = IF alive THEN signalled \cup {"SIGTERM"} ELSE signalled
    /\ waitLeft' = WaitTicks
    /\ pc' = "tp_wait"
    /\ UNCHANGED <<selectorOpen, outcome, stdinOpen, graceLeft>>
    /\ UNCHANGED receiveLocals /\ UNCHANGED receiveVars /\ UNCHANGED sendVars
    /\ UNCHANGED <<frames, stream, alive, exitPhase>>
    /\ UNCHANGED pipeVars

\* lines 278-279: proc.wait returns because the child has exited
TpWaitExited ==
    /\ pc = "tp_wait"
    /\ ~alive
    /\ TerminateReturn
    /\ UNCHANGED <<selectorOpen, stdinOpen, events>>
    /\ UNCHANGED receiveLocals /\ UNCHANGED receiveVars /\ UNCHANGED sendVars
    /\ UNCHANGED childVars
    /\ UNCHANGED pipeVars

\* a proc.wait() without a timeout
TpWaitForever ==
    /\ pc = "tp_wait"
    /\ alive /\ FALSE
    /\ events' = Append(events, "wait_timeout")
    /\ pc' = "tp_kill"
    /\ UNCHANGED <<selectorOpen, outcome, stdinOpen, graceLeft, waitLeft>>
    /\ UNCHANGED receiveLocals /\ UNCHANGED receiveVars /\ UNCHANGED sendVars
    /\ UNCHANGED childVars
    /\ UNCHANGED pipeVars

\* lines 280-281: proc.wait raises TimeoutExpired, which is swallowed
TpWaitTimeout ==
    /\ pc = "tp_wait"
    /\ alive /\ waitLeft <= 0
    /\ events' = Append(events, "wait_timeout")
    /\ pc' = "tp_kill"
    /\ UNCHANGED <<selectorOpen, outcome, stdinOpen, graceLeft, waitLeft>>
    /\ UNCHANGED receiveLocals /\ UNCHANGED receiveVars /\ UNCHANGED sendVars
    /\ UNCHANGED childVars
    /\ UNCHANGED pipeVars

\* lines 283-286: proc.kill() (an error is swallowed), and the function
\* returns; a living child receives SIGKILL
TpKill ==
    /\ pc = "tp_kill"
    /\ events' = Append(events, "kill")
    /\ signalled' = IF alive THEN signalled \cup {"SIGKILL"} ELSE signalled
    /\ TerminateReturn
    /\ UNCHANGED <<selectorOpen, stdinOpen>>
    /\ UNCHANGED receiveLocals /\ UNCHANGED receiveVars /\ UNCHANGED sendVars
    /\ UNCHANGED <<frames, stream, alive, exitPhase>>
    /\ UNCHANGED pipeVars

(***************************************************************************)
(* The child process and the clock                                         *)
(***************************************************************************)
\* what the child is facing: a signal it received, the expiry of
\* proc.wait, the grace period after its stdin was closed, the time after
\* it, or nothing yet
Facing ==
    IF "SIGKILL" \in signalled THEN "killed"
    ELSE IF pc = "tp_kill" THEN "wait_expired"
    ELSE IF "SIGTERM" \in signalled THEN "terminated"
    ELSE IF ~stdinOpen /\ graceLeft > 0 THEN "grace"
    ELSE IF ~stdinOpen THEN "after_grace"
    ELSE "running"

\* how much of its remaining output a child has written when it exits:
\* nothing more, or all of it
WrittenAtExit == {0, Len(stream)}

\* the exit codes of a child: what it passes to exit, or minus the number
\* of the signal that ended it (SIGTERM is 15, SIGKILL is 9)
ExitCodes ==
    {0, 1} \cup (IF "SIGKILL" \in signalled THEN {-9}
                ELSE IF "SIGTERM" \in signalled THEN {-15} ELSE {})

\* the child exits, by itself or by a signal; the k bytes it had written
\* to stdout stay readable in the pipe, the rest is never written, and a
\* child that still had diagnostic output to write had written none of
\* its answers
ChildExitWith(k, code) ==
    /\ alive
    /\ k \in WrittenAtExit
    /\ diagLeft > 0 => k = 0
    /\ alive' = FALSE
    /\ returncode' = Some(code)
    /\ stream' = SubSeq(stream, 1, k)
    /\ exitPhase' = Facing
    /\ UNCHANGED <<frames, signalled>>
    /\ UNCHANGED <<selectorOpen, pc, outcome>>
    /\ UNCHANGED receiveLocals /\ UNCHANGED receiveVars /\ UNCHANGED sendVars
    /\ UNCHANGED shutdownVars
    /\ UNCHANGED <<stdinPipe, closedCode, stdoutOpen>> /\ UNCHANGED diagVars

\* the exit code steers nothing in the program: where the code is not
\* looked at the child exits with 0, or is ended by the last signal
PlainCode ==
    IF "SIGKILL" \in signalled THEN -9 ELSE IF "SIGTERM" \in signalled THEN -15 ELSE 0

ChildExit(k) == ChildExitWith(k, PlainCode)

\* the child closes its stdout and runs on; the k bytes it had written
\* stay readable in the pipe
ChildCloseStdout(k) ==
    /\ alive /\ stdoutOpen
    /\ k \in WrittenAtExit
    /\ diagLeft > 0 => k = 0
    /\ stdoutOpen' = FALSE
    /\ stream' = SubSeq(stream, 1, k)
    /\ UNCHANGED <<frames, alive, signalled, exitPhase>>
    /\ UNCHANGED <<selectorOpen, pc, outcome>>
    /\ UNCHANGED receiveLocals /\ UNCHANGED receiveVars /\ UNCHANGED sendVars
    /\ UNCHANGED shutdownVars
    /\ UNCHANGED <<stdinPipe, returncode, closedCode>> /\ UNCHANGED diagVars

\* the child reads what stands in the pipe to its stdin
ChildReadStdin ==
    /\ alive
    /\ stdinPipe > 0
    /\ stdinPipe' = 0
    /\ UNCHANGED <<selectorOpen, pc, outcome>>
    /\ UNCHANGED receiveLocals /\ UNCHANGED receiveVars /\ UNCHANGED sendVars
    /\ UNCHANGED childVars /\ UNCHANGED shutdownVars
    /\ UNCHANGED exitVars /\ UNCHANGED diagVars

\* the deadline the thread is about to compare the clock with, where it
\* stands before a reading of the clock: lines 121 and 87 (the deadline of
\* recv_response_for_id; the time between the two lines is lost to the
\* deadline of recv_message), line 96, line 266, and inside proc.wait
PendingLeft ==
    IF pc = "rm_time" THEN rmLeft
    ELSE IF caller = "rr" /\ pc \in {"rr_check", "rm_enter"} THEN rrLeft
    ELSE IF pc = "tp_loop" THEN graceLeft
    ELSE IF pc = "tp_wait" THEN waitLeft
    ELSE 0

\* time passes: one tick less to every running deadline.  Time that passes
\* elsewhere shows only at the next reading of the clock, so the clock is
\* advanced where it is read, and only while the pending deadline is ahead
Tick ==
    /\ PendingLeft > 0
    /\ rmLeft' = IF pc = "rm_time" THEN Dec(rmLeft) ELSE rmLeft
    /\ rrLeft' = IF caller = "rr" THEN Dec(rrLeft) ELSE rrLeft
    /\ graceLeft' = IF pc = "tp_loop" THEN Dec(graceLeft) ELSE graceLeft
    /\ waitLeft' = IF pc = "tp_wait" THEN Dec(waitLeft) ELSE waitLeft
    /\ UNCHANGED <<caller, requestId, timeoutArg>>
    /\ UNCHANGED <<selectorOpen, pc, outcome, stdinOpen, events>>
    /\ UNCHANGED receiveVars /\ UNCHANGED sendVars /\ UNCHANGED childVars
    /\ UNCHANGED pipeVars

(***************************************************************************)
(* run_smoke (lines 289-396): the program                                  *)
(***************************************************************************)
\* the steps of the receive path around the decode attempt
ReceiveWait ==
    \/ RmEnter
    \/ RmTime
    \/ RmSelectTimeout
    \/ \E k \in 1..Len(stream) : RmRead(k)
    \/ RmWouldBlock
    \/ RmEof
    \/ RrCheck

\* the steps of the receive path
ReceiveStep == RmParse \/ ReceiveWait

\* the steps of _terminate_process
TerminateStep ==
    \/ TpClose
    \/ TpLoop
    \/ TpPoll
    \/ TpSleep
    \/ TpTerminate
    \/ TpWaitExited
    \/ TpWaitTimeout
    \/ TpKill

\* the last operation of the try block succeeded
Succeeded(op) == pc = "idle" /\ outcome.op = op /\ outcome.kind = "ok"

\* a run that writes request 1 again when its receive has timed out
RunSendRetry ==
    /\ selectorOpen
    /\ \/ outcome.op = "none" /\ SendPoll(Request(1))
       \/ Succeeded("recv_response_for_id") /\ Len(sent) = 1 /\ SendPoll(Notification)
       \/ Succeeded("send") /\ Len(sent) = 2 /\ SendPoll(Request(2))
       \/ /\ outcome = Outcome("recv_response_for_id", "timeout", NoMsg)
          /\ Len(sent) = 1
          /\ SendPoll(Request(1))

\* a run that writes request 2 right after request 1, without the receive
RunSendPipelined ==
    /\ selectorOpen
    /\ \/ outcome.op = "none" /\ SendPoll(Request(1))
       \/ Succeeded("send") /\ Len(sent) = 1 /\ SendPoll(Request(2))
       \/ Succeeded("recv_response_for_id") /\ Len(sent) = 2 /\ SendPoll(Notification)

\* lines 321-332, 340 and 346: the sends of the try block, each after the
\* success of the step before: request 1, the initialized notification,
\* request 2
RunSend ==
    /\ selectorOpen
    /\ \/ outcome.op = "none" /\ SendPoll(Request(1))
       \/ Succeeded("recv_response_for_id") /\ Len(sent) = 1 /\ SendPoll(Notification)
       \/ Succeeded("send") /\ Len(sent) = 2 /\ SendPoll(Request(2))

\* lines 333 and 347: the response to the request just sent is awaited
RunReceive ==
    /\ Succeeded("send")
    /\ \/ Len(sent) = 1 /\ CallRecvResponseForId(1)
       \/ Len(sent) = 3 /\ CallRecvResponseForId(2)

\* line 391: finally: client.close(), whether the try block returned
\* or raised (an error of the transport, a failed validation, an interrupt)
RunClose == selectorOpen /\ Close

\* line 392: _terminate_process(proc) follows close()
RunTerminate == ~selectorOpen /\ outcome.op = "close" /\ CallTerminate

\* the steps of the main thread other than the decode attempt
MainThreadAroundParse ==
    \/ RunSend
    \/ SendWrite
    \/ RunReceive
    \/ ReceiveWait
    \/ RunClose
    \/ RunTerminate
    \/ TerminateStep

\* the steps of the main thread
MainThread == RmParse \/ MainThreadAroundParse

Next ==
    \/ MainThread
    \/ \E k \in WrittenAtExit : ChildExit(k)
    \/ Tick

Spec == Init /\ [][Next]_vars

\* the decode attempt (line 91) is pure computation on the buffer: it can
\* always be made where the thread stands before it, and it always leaves
\* that position, so its weak fairness is that the thread does not stay there
ParseFairness == []<>(pc # "rm_parse")

\* the main thread keeps running (it is the only thread, and every call it
\* blocks in is bounded by a deadline) and the clock keeps advancing; nothing
\* is assumed of the child
FairSpec ==
    /\ Spec
    /\ WF_vars(MainThreadAroundParse)
    /\ ParseFairness
    /\ SF_vars(Tick)

(***************************************************************************)
(* The reader under any caller: recv_message and recv_response_for_id      *)
(* called in any order on a child writing any of the streams               *)
(***************************************************************************)
NextReader ==
    \/ CallRecvMessage
    \/ \E request_id \in RequestIds : CallRecvResponseForId(request_id)
    \/ ReceiveStep
    \/ \E k \in WrittenAtExit : ChildExit(k)
    \/ Tick

SpecReader == Init /\ [][NextReader]_vars

(***************************************************************************)
(* The reader at the end of the child's stdout: the child exits with any   *)
(* code, or closes its stdout and runs on                                  *)
(***************************************************************************)
NextEof ==
    \/ NextReader
    \/ \E k \in WrittenAtExit : \E code \in ExitCodes : ChildExitWith(k, code)
    \/ \E k \in WrittenAtExit : ChildCloseStdout(k)

\* the child sets out to write nothing, a response, or a notification and
\* a response
EofStreams ==
    { <<>>,
      <<SendFrame(Response(1))>>,
      <<SendFrame(Notification), SendFrame(Response(1))>> }

InitEof == \E output \in EofStreams : InitWith(output)

SpecEof == InitEof /\ [][NextEof]_vars

(***************************************************************************)
(* A call after a timed-out call: recv_response_for_id(1) first, and       *)
(* recv_response_for_id(2) after each receive that timed out, on a child   *)
(* that answers request 1 late                                             *)
(***************************************************************************)
LateStreams ==
    { <<SendFrame(Response(1)), SendFrame(Response(2))>>,
      <<SendFrame(Notification), SendFrame(Response(1)), SendFrame(Response(2))>>,
      <<SendFrame(Response(2))>>,
      <<SendFrame(Response(1))>> }

InitLate == \E output \in LateStreams : InitWith(output)

CallFirst == outcome.op = "none" /\ CallRecvResponseForId(1)

CallAfterTimeout == timedOut /\ CallRecvResponseForId(2)

NextLate ==
    \/ CallFirst
    \/ CallAfterTimeout
    \/ ReceiveStep
    \/ \E k \in WrittenAtExit : ChildExit(k)
    \/ Tick

SpecLate == InitLate /\ [][NextLate]_vars

\* a server whose output has a frame with a header section that cannot be
\* used (no Content-Length, a value that is no number, a value that
\* isdigit() accepts and int() rejects), after a notification or not, and
\* followed by a well-formed answer
HeaderErrorFrames ==
    { Frame(<<88, 58, 32, 49>>, CRLFCRLF, Dumps(Response(2))),
      Frame(ContentLengthPrefix \o <<120>>, CRLFCRLF, Dumps(Response(2))),
      Frame(ContentLengthPrefix \o <<194, 178>>, LFLF, Dumps(Response(2))) }

HeaderErrorStreams ==
    { pre \o <<bad, SendFrame(Response(1))>> :
      pre \in {<<>>, <<SendFrame(Notification)>>}, bad \in HeaderErrorFrames }

InitHeaderError == \E output \in HeaderErrorStreams : InitWith(output)

\* the caller whose wait for id 1 failed on the header calls recv_message
CallAfterHeaderError ==
    /\ outcome.op = "recv_response_for_id"
    /\ outcome.kind \in {"header", "value"}
    /\ CallRecvMessage

NextHeaderError ==
    \/ CallFirst
    \/ CallAfterHeaderError
    \/ ReceiveStep
    \/ \E k \in WrittenAtExit : ChildExit(k)
    \/ Tick

SpecHeaderError == InitHeaderError /\ [][NextHeaderError]_vars

\* a server that writes two well-formed frames, each ended by CR LF CR LF
\* or by LF LF as it likes
Terminators == {CRLFCRLF, LFLF}

MixedStreams ==
    { <<FrameOf(t1, Dumps(Response(1))), FrameOf(t2, Dumps(Response(2)))>> :
      t1 \in Terminators, t2 \in Terminators }

InitMixed == \E output \in MixedStreams : InitWith(output)

SpecMixed == InitMixed /\ [][NextReader]_vars

\* a wait for the answer to request 1 from a living server that writes
\* nothing but other traffic: MaxFlood frames, notifications or answers to
\* another request or the two in turn, arriving in pieces of any size
MaxFlood == 3

FloodFrames == <<SendFrame(Notification), SendFrame(Response(2))>>

FloodStreams ==
    { [i \in 1..MaxFlood |-> FloodFrames[1]],
      [i \in 1..MaxFlood |-> FloodFrames[2]],
      [i \in 1..MaxFlood |-> FloodFrames[1 + (i % 2)]] }

InitFlood == \E output \in FloodStreams : InitWith(output)

FloodWait ==
    \/ RmEnter
    \/ RmTime
    \/ RmSelectTimeout
    \/ \E k \in 1..Len(stream) : RmRead(k)
    \/ RmWouldBlock
    \/ RrCheck

NextFlood ==
    \/ CallFirst
    \/ RmParse
    \/ FloodWait
    \/ Tick

SpecFlood == InitFlood /\ [][NextFlood]_vars

\* the thread in the call keeps running and the clock advances
FairFlood == SpecFlood /\ WF_vars(FloodWait) /\ ParseFairness /\ SF_vars(Tick)


(***************************************************************************)
(* The reader on frames whose body is no JSON object                       *)
(***************************************************************************)
\* bodies that are no JSON: empty, "{", "{} x", and a byte that is no UTF-8
NotJson == {<<>>, <<123>>, <<123, 125, 32, 120>>, <<255>>}

\* bodies that are JSON but no object: [1], 1 and "a"
NotObject == {<<91, 49, 93>>, <<49>>, <<34, 97, 34>>}

BadBodyFrames == {FrameOf(CRLFCRLF, body) : body \in NotJson \cup NotObject}

\* a frame of them alone, after a notification, and before a response
BadBodyStreams ==
    UNION { { <<bad>>, <<SendFrame(Notification), bad>>, <<bad, SendFrame(Response(1))>> }
            : bad \in BadBodyFrames }

InitBodies == \E output \in BadBodyStreams : InitWith(output)

SpecBodies == InitBodies /\ [][NextReader]_vars

(***************************************************************************)
(* _pump_stderr (lines 185-194) and the child's diagnostic output          *)
(***************************************************************************)
\* the i-th line of a child's diagnostic output, the newline at its end:
\* "d" and a digit, or, every second line, a byte that is no UTF-8 and a
\* digit
DiagLine(i) == <<(IF i % 2 = 0 THEN 255 ELSE 100), 48 + i, 10>>

\* line 188: raw.decode("utf-8", errors="replace")
DecodeLine(raw) == Utf8Replace(raw)

\* line 194: the line the pump leaves in the sink when its loop fails,
\* "[stderr-pump-error] " followed by the text of the exception
PumpErrorLine ==
    <<91, 115, 116, 100, 101, 114, 114, 45, 112, 117, 109, 112, 45, 101, 114, 114,
      111, 114, 93, 32, 10>>

\* the child writes a line of diagnostic output to its stderr; with the
\* pipe full the write blocks
ChildWriteDiag ==
    /\ alive /\ diagLeft > 0
    /\ Len(stderrPipe) < StderrCapacity
    /\ stderrPipe' = Append(stderrPipe, DiagLine(Len(errWritten) + 1))
    /\ errWritten' = Append(errWritten, DiagLine(Len(errWritten) + 1))
    /\ diagLeft' = diagLeft - 1
    /\ UNCHANGED <<pumping, sink>>
    /\ UNCHANGED <<selectorOpen, pc, outcome>>
    /\ UNCHANGED receiveLocals /\ UNCHANGED receiveVars /\ UNCHANGED sendVars
    /\ UNCHANGED childVars /\ UNCHANGED shutdownVars
    /\ UNCHANGED stdinPipe /\ UNCHANGED exitVars

\* a pump that ends after its first line
PumpOnce ==
    /\ pumping /\ stderrPipe # <<>>
    /\ stderrPipe' = Tail(stderrPipe)
    /\ sink' = Append(sink, DecodeLine(Head(stderrPipe)))
    /\ pumping' = FALSE
    /\ UNCHANGED <<diagLeft, errWritten>>
    /\ UNCHANGED <<selectorOpen, pc, outcome>>
    /\ UNCHANGED receiveLocals /\ UNCHANGED receiveVars /\ UNCHANGED sendVars
    /\ UNCHANGED childVars /\ UNCHANGED shutdownVars
    /\ UNCHANGED stdinPipe /\ UNCHANGED exitVars

\* a pump that puts each line in front of the lines before
PumpLineFront ==
    /\ pumping /\ stderrPipe # <<>>
    /\ stderrPipe' = Tail(stderrPipe)
    /\ sink' = <<DecodeLine(Head(stderrPipe))>> \o sink
    /\ UNCHANGED <<diagLeft, pumping, errWritten>>
    /\ UNCHANGED <<selectorOpen, pc, outcome>>
    /\ UNCHANGED receiveLocals /\ UNCHANGED receiveVars /\ UNCHANGED sendVars
    /\ UNCHANGED childVars /\ UNCHANGED shutdownVars
    /\ UNCHANGED stdinPipe /\ UNCHANGED exitVars

\* lines 187-192: pipe.readline() takes a line out of the pipe, the line
\* is appended to the sink (and teed to the harness's own stderr, which is
\* taken to accept it), and the loop goes on
PumpLine ==
    /\ pumping /\ stderrPipe # <<>>
    /\ stderrPipe' = Tail(stderrPipe)
    /\ sink' = Append(sink, DecodeLine(Head(stderrPipe)))
    /\ UNCHANGED <<diagLeft, pumping, errWritten>>
    /\ UNCHANGED <<selectorOpen, pc, outcome>>
    /\ UNCHANGED receiveLocals /\ UNCHANGED receiveVars /\ UNCHANGED sendVars
    /\ UNCHANGED childVars /\ UNCHANGED shutdownVars
    /\ UNCHANGED stdinPipe /\ UNCHANGED exitVars

\* line 187: readline returns b"" at the end of the pipe, when the child
\* has exited and the pipe is empty: the loop and the thread end
PumpEnds ==
    /\ pumping /\ ~alive /\ stderrPipe = <<>>
    /\ pumping' = FALSE
    /\ UNCHANGED <<stderrPipe, diagLeft, sink, errWritten>>
    /\ UNCHANGED <<selectorOpen, pc, outcome>>
    /\ UNCHANGED receiveLocals /\ UNCHANGED receiveVars /\ UNCHANGED sendVars
    /\ UNCHANGED childVars /\ UNCHANGED shutdownVars
    /\ UNCHANGED stdinPipe /\ UNCHANGED exitVars

\* a pump whose loop ends at a fault and leaves no word of it
PumpFailsSilently ==
    /\ pumping
    /\ pumping' = FALSE
    /\ UNCHANGED <<stderrPipe, diagLeft, sink, errWritten>>
    /\ UNCHANGED <<selectorOpen, pc, outcome>>
    /\ UNCHANGED receiveLocals /\ UNCHANGED receiveVars /\ UNCHANGED sendVars
    /\ UNCHANGED childVars /\ UNCHANGED shutdownVars
    /\ UNCHANGED stdinPipe /\ UNCHANGED exitVars

\* lines 193-194: an exception in the loop, raised by pipe.readline() or,
\* after the line was taken and appended, by the tee to sys.stderr, is
\* caught: the pump appends its error line and the thread ends
PumpFails ==
    /\ pumping
    /\ \/ /\ sink' = Append(sink, PumpErrorLine)
          /\ UNCHANGED stderrPipe
       \/ /\ stderrPipe # <<>>
          /\ stderrPipe' = Tail(stderrPipe)
          /\ sink' = Append(Append(sink, DecodeLine(Head(stderrPipe))), PumpErrorLine)
    /\ pumping' = FALSE
    /\ UNCHANGED <<diagLeft, errWritten>>
    /\ UNCHANGED <<selectorOpen, pc, outcome>>
    /\ UNCHANGED receiveLocals /\ UNCHANGED receiveVars /\ UNCHANGED sendVars
    /\ UNCHANGED childVars /\ UNCHANGED shutdownVars
    /\ UNCHANGED stdinPipe /\ UNCHANGED exitVars

\* lines 307-315 and 333: the pump thread runs beside the main thread,
\* which waits for the response to request 1 from a child that first
\* writes some lines of diagnostic output
InitPump == \E diag \in 0..MaxDiag : InitDiag(<<SendFrame(Response(1))>>, diag)

NextPump ==
    \/ NextReader
    \/ ChildWriteDiag
    \/ PumpLine
    \/ PumpEnds

SpecPump == InitPump /\ [][NextPump]_vars

\* the pump thread keeps running beside the main thread (it is started at
\* line 313, and the main thread gives the interpreter up while it waits in
\* select), and the child writes on whenever its stderr takes a line
FairPump == SpecPump /\ WF_vars(PumpLine) /\ WF_vars(ChildWriteDiag)

\* the pump beside the main thread, its loop failing at any point
NextPumpFault == NextPump \/ PumpFails

SpecPumpFault == InitPump /\ [][NextPumpFault]_vars

(***************************************************************************)
(* The shutdown under any caller: close and _terminate_process called in   *)
(* any order on a child that exits when it likes                           *)
(***************************************************************************)
\* lines 259-263: proc.stdin.close() raises; except Exception: pass.  The
\* file object may or may not have released its descriptor, and the
\* function goes on to the grace loop
TpCloseFails ==
    /\ pc = "tp_close"
    /\ stdinOpen' \in {stdinOpen, FALSE}
    /\ events' = Append(events, "close_stdin")
    /\ graceLeft' = GraceTicks
    /\ pc' = "tp_loop"
    /\ UNCHANGED <<selectorOpen, outcome, waitLeft>>
    /\ UNCHANGED receiveLocals /\ UNCHANGED receiveVars /\ UNCHANGED sendVars
    /\ UNCHANGED childVars
    /\ UNCHANGED pipeVars

\* a proc.terminate() whose exception leaves _terminate_process
TpTerminateRaises ==
    /\ pc = "tp_term"
    /\ events' = Append(events, "terminate")
    /\ Return("terminate", "error", NoMsg)
    /\ UNCHANGED <<selectorOpen, stdinOpen, graceLeft, waitLeft>>
    /\ UNCHANGED receiveLocals /\ UNCHANGED receiveVars /\ UNCHANGED sendVars
    /\ UNCHANGED childVars
    /\ UNCHANGED pipeVars

\* lines 272-275: proc.terminate() raises (the child is gone, or the signal
\* is refused); except Exception: pass.  No signal is delivered and
\* proc.wait(timeout=2.0) starts
TpTerminateFails ==
    /\ pc = "tp_term"
    /\ events' = Append(events, "terminate")
    /\ waitLeft' = WaitTicks
    /\ pc' = "tp_wait"
    /\ UNCHANGED <<selectorOpen, outcome, stdinOpen, graceLeft>>
    /\ UNCHANGED receiveLocals /\ UNCHANGED receiveVars /\ UNCHANGED sendVars
    /\ UNCHANGED childVars
    /\ UNCHANGED pipeVars

\* lines 277-281: proc.wait(timeout=2.0) raises something other than the
\* timeout; except Exception: pass covers it as well, and the kill follows
TpWaitFails ==
    /\ pc = "tp_wait"
    /\ events' = Append(events, "wait_timeout")
    /\ pc' = "tp_kill"
    /\ UNCHANGED <<selectorOpen, outcome, stdinOpen, graceLeft, waitLeft>>
    /\ UNCHANGED receiveLocals /\ UNCHANGED receiveVars /\ UNCHANGED sendVars
    /\ UNCHANGED childVars
    /\ UNCHANGED pipeVars

\* lines 283-286: proc.kill() raises; except Exception: pass.  No signal
\* is delivered and the function returns
TpKillFails ==
    /\ pc = "tp_kill"
    /\ events' = Append(events, "kill")
    /\ TerminateReturn
    /\ UNCHANGED <<selectorOpen, stdinOpen>>
    /\ UNCHANGED receiveLocals /\ UNCHANGED receiveVars /\ UNCHANGED sendVars
    /\ UNCHANGED childVars
    /\ UNCHANGED pipeVars

InitShutdown == InitWith(<<>>)

NextShutdown ==
    \/ Close
    \/ CallTerminate
    \/ TerminateStep
    \/ \E k \in WrittenAtExit : ChildExit(k)
    \/ Tick

SpecShutdown == InitShutdown /\ [][NextShutdown]_vars

\* shutdown in which any of the guarded steps may raise
NextShutdownFault ==
    \/ NextShutdown
    \/ TpCloseFails
    \/ TpTerminateFails
    \/ TpWaitFails
    \/ TpKillFails

SpecShutdownFault == InitShutdown /\ [][NextShutdownFault]_vars

\* the thread in _terminate_process keeps running and time passes; no
\* step is obliged to fail
FairShutdownFault == SpecShutdownFault /\ WF_vars(TerminateStep) /\ SF_vars(Tick)


(***************************************************************************)
(* The run to its end: run_smoke with an exception of any other kind       *)
(* raised in the middle of an exchange, and the exit of the function       *)
(***************************************************************************)
\* where the thread stands inside send or a receive of the try block
InExchange == {"send_write", "rm_enter", "rm_parse", "rm_time", "rm_select", "rr_check"}

\* lines 318-388: an exception that is none of the transport's own (a
\* KeyboardInterrupt, say) is raised while the thread is inside send or a
\* receive; the call is unwound and its locals are gone
Interrupt ==
    /\ pc \in InExchange
    /\ IF pc = "send_write"
       THEN /\ Return("send", "interrupt", NoMsg)
            /\ sending' = <<>>
            /\ UNCHANGED <<sent, timedOut>>
            /\ UNCHANGED receiveLocals
       ELSE /\ ReceiveReturn(ReceiveOp, "interrupt", NoMsg)
            /\ UNCHANGED sendVars
    /\ UNCHANGED <<buffer, delivered, lastDelivery, ready, skipped, ioSinceReturn,
                   partialSeen>>
    /\ UNCHANGED selectorOpen
    /\ UNCHANGED childVars /\ UNCHANGED shutdownVars
    /\ UNCHANGED pipeVars

\* the exit that leaves the function where the exception is raised, as a
\* try block without its finally clause would
RunExitOnError ==
    /\ pc = "idle"
    /\ outcome.kind \notin {"ok", "running"}
    /\ pc' = "exited"
    /\ UNCHANGED <<selectorOpen, outcome>>
    /\ UNCHANGED receiveLocals /\ UNCHANGED receiveVars /\ UNCHANGED sendVars
    /\ UNCHANGED childVars /\ UNCHANGED shutdownVars
    /\ UNCHANGED pipeVars

\* lines 390-396: the finally clause has run to its end (close, then
\* _terminate_process, then the bounded join of the stderr thread) and
\* run_smoke returns, or the exception of the try block goes on to the caller
RunExit ==
    /\ pc = "idle"
    /\ ~selectorOpen
    /\ outcome.op = "terminate"
    /\ pc' = "exited"
    /\ UNCHANGED <<selectorOpen, outcome>>
    /\ UNCHANGED receiveLocals /\ UNCHANGED receiveVars /\ UNCHANGED sendVars
    /\ UNCHANGED childVars /\ UNCHANGED shutdownVars
    /\ UNCHANGED pipeVars

NextRun ==
    \/ Next
    \/ Interrupt
    \/ RunExit

SpecRun == Init /\ [][NextRun]_vars

\* the run against a server that writes ahead: the answer to request 1 is
\* followed on stdout by a notification of its own and by the answer to
\* request 2, so that input is pending while the client sends
AheadStreams ==
    { <<SendFrame(Response(1)), SendFrame(Notification), SendFrame(Response(2))>>,
      <<SendFrame(Notification), SendFrame(Response(1)), SendFrame(Response(2))>> }

InitAhead == \E output \in AheadStreams : InitWith(output)

SpecAhead == InitAhead /\ [][NextRun]_vars

\* ---- the handshake of run_smoke, with its validations ------------------
KeyError == <<101, 114, 114, 111, 114>>
KeyProtocolVersion == <<112, 114, 111, 116, 111, 99, 111, 108, 86, 101, 114, 115, 105, 111, 110>>
KeyServerInfo == <<115, 101, 114, 118, 101, 114, 73, 110, 102, 111>>
KeyName == <<110, 97, 109, 101>>
KeyTools == <<116, 111, 111, 108, 115>>
KeyResources == <<114, 101, 115, 111, 117, 114, 99, 101, 115>>
\* line 33: DEFAULT_PROTOCOL_VERSION = "2025-03-26"
ProtocolVersion == <<50, 48, 50, 53, 45, 48, 51, 45, 50, 54>>
\* line 34: DEFAULT_EXPECTED_TOOL = "store_node"
ExpectedTool == <<115, 116, 111, 114, 101, 95, 110, 111, 100, 101>>

\* what dict.get returns for a key that is not there
PyNone == [type |-> "none", num |-> 0, str |-> <<>>, items |-> {}]

\* "key in d" and d.get(key)
HasKey(d, key) == \E e \in d.items : e.k = key
Get(d, key) == IF HasKey(d, key) THEN (CHOOSE e \in d.items : e.k = key).v ELSE PyNone

\* the truth value Python gives a decoded value
Truthy(v) ==
    IF v.type = "num" THEN v.num # 0
    ELSE IF v.type = "str" THEN v.str # <<>>
    ELSE IF v.type \in {"obj", "arr"} THEN v.items # {}
    ELSE FALSE

\* lines 200-215: TRUE when the function returns, FALSE when it raises
ValidateInitializeResponse(resp, protocol_version) ==
    LET result == Get(resp, KeyResult)
        server_info == Get(result, KeyServerInfo)
    IN  IF HasKey(resp, KeyError) THEN FALSE
        ELSE IF result.type # "obj" THEN FALSE
        ELSE IF Get(result, KeyProtocolVersion) # JStr(protocol_version) THEN FALSE
        ELSE IF server_info.type # "obj" THEN FALSE
        ELSE Truthy(Get(server_info, KeyName))

\* lines 218-237, with an expected tool given
ValidateToolsList(resp, expected_tool) ==
    LET result == Get(resp, KeyResult)
        tools == Get(result, KeyTools)
        names == {Get(t.v, KeyName) : t \in {e \in tools.items : e.v.type = "obj"}}
    IN  IF HasKey(resp, KeyError) THEN FALSE
        ELSE IF result.type # "obj" THEN FALSE
        ELSE IF tools.type # "arr" THEN FALSE
        ELSE JStr(expected_tool) \in names

\* lines 240-252
ValidateResourcesList(resp) ==
    LET result == Get(resp, KeyResult)
    IN  IF HasKey(resp, KeyError) THEN FALSE
        ELSE IF result.type # "obj" THEN FALSE
        ELSE Get(result, KeyResources).type = "arr"

\* the validation run_smoke applies to the response of its n-th frame
Validates(n, resp) ==
    IF n = 1 THEN ValidateInitializeResponse(resp, ProtocolVersion)
    ELSE IF n = 3 THEN ValidateToolsList(resp, ExpectedTool)
    ELSE ValidateResourcesList(resp)

\* what a server may answer: the answers run_smoke accepts ...
Answer(i, result) == <<[k |-> KeyId, v |-> JNum(i)], [k |-> KeyResult, v |-> result]>>

GoodAnswers ==
    << Answer(1, JObj({[k |-> KeyProtocolVersion, v |-> JStr(ProtocolVersion)],
                       [k |-> KeyServerInfo,
                        v |-> JObj({[k |-> KeyName, v |-> JStr(<<103>>)]})]})),
       Answer(2, JObj({[k |-> KeyTools,
                        v |-> JArr({[k |-> <<0>>,
                                     v |-> JObj({[k |-> KeyName,
                                                  v |-> JStr(ExpectedTool)]})]})]})),
       Answer(3, JObj({[k |-> KeyResources, v |-> JArr({})]})) >>

\* ... and, for request i, the answers it rejects: an error, a result that
\* is no object, and a result without what the step looks for
BadAnswers(i) ==
    { <<[k |-> KeyId, v |-> JNum(i)], [k |-> KeyError, v |-> JNum(1)]>>,
      Response(i),
      Answer(i, JNum(1)),
      Answer(i, JObj({})),
      IF i = 1
      THEN Answer(1, JObj({[k |-> KeyProtocolVersion, v |-> JStr(ProtocolVersion)],
                           [k |-> KeyServerInfo, v |-> JObj({[k |-> KeyName, v |-> JStr(<<>>)]})]}))
      ELSE IF i = 2
      THEN Answer(2, JObj({[k |-> KeyTools, v |-> JArr({})]}))
      ELSE Answer(3, JObj({[k |-> KeyResources, v |-> JNum(0)]})) }

\* the good answers in order, at most one of them replaced by a bad one
HandshakeStreams ==
    { [i \in 1..3 |-> SendFrame(GoodAnswers[i])] }
    \cup { [i \in 1..3 |-> SendFrame(IF i = at THEN bad ELSE GoodAnswers[i])] :
           <<at, bad>> \in UNION { {<<j, b>> : b \in BadAnswers(j)} : j \in 1..3 } }

InitHandshake == \E output \in HandshakeStreams : InitWith(output)

\* a run that sends every frame as soon as the one before is written
HandshakeSendUnvalidated ==
    /\ selectorOpen
    /\ \/ outcome.op = "none" /\ SendPoll(Request(1))
       \/ Succeeded("recv_response_for_id") /\ Len(sent) = 1 /\ SendPoll(Notification)
       \/ Succeeded("send") /\ Len(sent) = 2 /\ SendPoll(Request(2))
       \/ Succeeded("recv_response_for_id") /\ Len(sent) = 3 /\ SendPoll(Request(3))

\* lines 321-332, 340, 346 and 361: the four sends of the try block, each
\* reached only when the statement before it has returned
HandshakeSend ==
    /\ selectorOpen
    /\ \/ outcome.op = "none" /\ SendPoll(Request(1))
       \/ Succeeded("validate") /\ Len(sent) = 1 /\ SendPoll(Notification)
       \/ Succeeded("send") /\ Len(sent) = 2 /\ SendPoll(Request(2))
       \/ Succeeded("validate") /\ Len(sent) = 3 /\ SendPoll(Request(3))

\* lines 333, 347 and 362: the receive that follows each request
HandshakeReceive ==
    /\ Succeeded("send")
    /\ \/ Len(sent) = 1 /\ CallRecvResponseForId(1)
       \/ Len(sent) = 3 /\ CallRecvResponseForId(2)
       \/ Len(sent) = 4 /\ CallRecvResponseForId(3)

\* lines 335, 349 and 364: the response is validated; a validator that
\* raises leaves the try block
HandshakeValidate ==
    /\ Succeeded("recv_response_for_id")
    /\ selectorOpen
    /\ outcome' = Outcome("validate",
                          IF Validates(Len(sent), outcome.msg) THEN "ok" ELSE "invalid",
                          outcome.msg)
    /\ UNCHANGED <<selectorOpen, pc>>
    /\ UNCHANGED receiveLocals /\ UNCHANGED receiveVars /\ UNCHANGED sendVars
    /\ UNCHANGED childVars /\ UNCHANGED shutdownVars
    /\ UNCHANGED pipeVars

\* os.read returns what the server has written: one whole answer, or
\* several, or all there is
WholeFrames ==
    {k \in 1..Len(stream) :
        \E j \in 1..(Len(frames) + 1) :
            Len(stream) - k = Len(Concat(SubSeq(frames, j, Len(frames))))}

HandshakeWait ==
    \/ RmEnter
    \/ RmTime
    \/ RmSelectTimeout
    \/ \E k \in WholeFrames : RmRead(k)
    \/ RmWouldBlock
    \/ RmEof
    \/ RrCheck

NextHandshake ==
    \/ HandshakeSend
    \/ SendWrite
    \/ HandshakeReceive
    \/ RmParse
    \/ HandshakeWait
    \/ HandshakeValidate
    \/ RunClose
    \/ RunTerminate
    \/ TerminateStep
    \/ Interrupt
    \/ RunExit
    \/ ChildReadStdin
    \/ \E k \in WrittenAtExit : ChildExit(k)
    \/ Tick

SpecHandshake == InitHandshake /\ [][NextHandshake]_vars

(***************************************************************************)
(* send under any caller: send, close and _terminate_process called in     *)
(* any order, on a child that reads its stdin when it likes, or never      *)
(***************************************************************************)
\* how many frames a caller writes
MaxSends == 4

\* the collaborator calls send with a request or a notification
SendAny ==
    /\ Len(sent) < MaxSends
    /\ \E message \in {Request(1), Notification} : SendPoll(message)

NextSend ==
    \/ SendAny
    \/ SendWrite
    \/ Close
    \/ CallTerminate
    \/ TerminateStep
    \/ ChildReadStdin
    \/ \E k \in WrittenAtExit : ChildExit(k)
    \/ Tick

SpecSend == InitShutdown /\ [][NextSend]_vars

\* the thread keeps running inside send and _terminate_process and the
\* clock keeps advancing; nothing is assumed of the child, which may never
\* read its stdin
FairSend == SpecSend /\ WF_vars(SendWrite \/ TerminateStep) /\ SF_vars(Tick)

(***************************************************************************)
(* The codec on its own: send()'s frame of a message is decoded, or a      *)
(* buffer a server could have written is                                   *)
(***************************************************************************)
\* a string of 48 letters: two of them make a body of more than 99 bytes
LongString == [i \in 1..48 |-> 97]

\* the strings of the messages: empty, plain, a quote, a backslash, line
\* ends, both header terminators, header text, and the long one
Strings ==
    { <<>>, <<110>>, <<34>>, <<92>>, <<9>>, <<13, 10>>, CRLFCRLF, LFLF \o <<125>>,
      ContentLengthPrefix \o <<57>>, LongString }

\* the values of the messages: numbers, the strings, objects and arrays,
\* empty and nested
Values ==
    {JNum(0), JNum(7), JNum(12345)} \cup {JStr(x) : x \in Strings}
    \cup { JObj({}),
           JObj({[k |-> KeyId, v |-> JNum(1)]}),
           JObj({[k |-> KeyId, v |-> JNum(1)], [k |-> KeyMethod, v |-> JStr(<<34>>)]}),
           JArr({}),
           JArr({[k |-> <<0>>, v |-> JNum(1)], [k |-> <<1>>, v |-> JStr(<<92>>)]}),
           JArr({[k |-> <<0>>, v |-> JObj({[k |-> KeyResult, v |-> JArr({})]})]}) }

\* the keys of the messages; the last one is a quote and a line feed
Keys == {KeyId, KeyMethod, KeyResult, <<34, 10>>}

Pairs == {[k |-> key, v |-> val] : key \in Keys, val \in Values}

\* the messages: the JSON objects of at most two members
Messages ==
    {<<>>} \cup {<<p>> : p \in Pairs}
    \cup {pq \in Pairs \X Pairs : pq[1].k # pq[2].k}

\* header sections that declare the length 8
GoodHeaders ==
    { <<67, 111, 110, 116, 101, 110, 116, 45, 76, 101, 110, 103, 116, 104, 58, 32, 56>>,
      <<99, 111, 110, 116, 101, 110, 116, 45, 108, 101, 110, 103, 116, 104, 58, 32, 56>>,
      <<67, 79, 78, 84, 69, 78, 84, 45, 76, 69, 78, 71, 84, 72, 58, 56>>,
      <<67, 111, 110, 116, 101, 110, 116, 45, 76, 101, 110, 103, 116, 104, 58, 32, 32, 32, 56, 32, 32>>,
      <<32, 67, 111, 110, 116, 101, 110, 116, 45, 76, 101, 110, 103, 116, 104, 32, 58, 32, 56>>,
      <<67, 111, 110, 116, 101, 110, 116, 45, 84, 121, 112, 101, 58, 32, 120, 13, 10, 67, 111, 110, 116, 101, 110, 116, 45, 76, 101, 110, 103, 116, 104, 58, 32, 56>>,
      <<67, 111, 110, 116, 101, 110, 116, 45, 76, 101, 110, 103, 116, 104, 58, 32, 56, 13, 10, 88, 58, 32, 49>>,
      <<67, 111, 110, 116, 101, 110, 116, 45, 76, 101, 110, 103, 116, 104, 58, 32, 56, 10, 67, 111, 110, 116, 101, 110, 116, 45, 76, 101, 110, 103, 116, 104, 58, 32, 57, 57>>,
      <<67, 111, 110, 116, 101, 110, 116, 45, 76, 101, 110, 103, 116, 104, 58, 32, 217, 168>>,
      <<67, 111, 110, 116, 101, 110, 116, 45, 76, 101, 110, 103, 116, 104, 58, 32, 48, 56>>,
      <<110, 111, 32, 99, 111, 108, 111, 110, 32, 104, 101, 114, 101, 13, 10, 67, 111, 110, 116, 101, 110, 116, 45, 76, 101, 110, 103, 116, 104, 58, 32, 56>> }

\* header sections without a usable Content-Length
BadHeaders ==
    { <<88, 58, 32, 49>>,
      <<>>,
      <<67, 111, 110, 116, 101, 110, 116, 45, 76, 101, 110, 103, 116, 104, 32, 56>>,
      <<67, 111, 110, 116, 101, 110, 116, 45, 76, 101, 110, 103, 116, 104, 58>>,
      <<67, 111, 110, 116, 101, 110, 116, 45, 76, 101, 110, 103, 116, 104, 58, 32, 97, 98, 99>>,
      <<67, 111, 110, 116, 101, 110, 116, 45, 76, 101, 110, 103, 116, 104, 58, 32, 45, 56>>,
      <<67, 111, 110, 116, 101, 110, 116, 45, 76, 101, 110, 103, 116, 104, 58, 32, 43, 56>>,
      <<67, 111, 110, 116, 101, 110, 116, 45, 76, 101, 110, 103, 116, 104, 58, 32, 56, 46, 48>>,
      <<67, 111, 110, 116, 101, 110, 116, 45, 76, 101, 110, 103, 116, 104, 58, 32, 48, 120, 56>>,
      <<67, 111, 110, 116, 101, 110, 116, 45, 76, 101, 110, 103, 116, 104, 58, 32, 56, 32, 56>>,
      <<67, 111, 110, 116, 101, 110, 116, 45, 76, 101, 110, 103, 116, 104, 58, 32, 194, 178>>,
      <<67, 111, 110, 116, 101, 110, 116, 45, 76, 101, 110, 103, 116, 104, 58, 32, 49, 194, 179>>,
      <<67, 111, 110, 116, 101, 110, 116, 45, 76, 101, 110, 103, 116, 104, 58, 32, 255>>,
      <<67, 111, 110, 116, 101, 110, 116, 45, 76, 101, 110, 103, 116, 104, 58, 32, 120, 13, 10, 67, 111, 110, 116, 101, 110, 116, 45, 76, 101, 110, 103, 116, 104, 58, 32, 56>> }

\* {"id":1} and {"id":123}: bodies of 8 and of 10 bytes
Body8 == Dumps(Response(1))
Body10 == Dumps(Response(123))

\* every leading part of a byte string, the whole of it included
Prefixes(b) == {SubSeq(b, 1, n) : n \in 0..Len(b)}

\* two frames in the buffer, one ended by LF LF and one by CR LF CR LF
MixedInputs ==
    { FrameOf(LFLF, Body8) \o FrameOf(CRLFCRLF, Dumps(Response(2))),
      FrameOf(CRLFCRLF, Body8) \o FrameOf(LFLF, Dumps(Response(2))) }

\* the buffers tried: each header section with each terminator and every
\* leading part of the body, and every leading part of two whole frames
RawInputs ==
    { Frame(header, term, part) :
        header \in GoodHeaders \cup BadHeaders, term \in {CRLFCRLF, LFLF},
        part \in Prefixes(Body8) }
    \cup Prefixes(FrameOf(CRLFCRLF, Body10))
    \cup Prefixes(FrameOf(LFLF, Body10))
    \cup MixedInputs

\* either a message is about to be framed by send(), or the buffer holds
\* bytes as a server wrote them
InitCodec ==
    /\ Fresh
    /\ stream = <<>>
    /\ diagLeft = 0
    /\ \/ pc = "encode" /\ sending \in Messages /\ buffer = <<>> /\ frames = <<>>
       \/ pc = "decode" /\ sending = <<>> /\ buffer \in RawInputs /\ frames = <<buffer>>

\* lines 75-76 of send(): the frame of the message, put into the buffer as
\* a server echoing it would
Encode ==
    /\ pc = "encode"
    /\ sent' = <<SendFrame(sending)>>
    /\ buffer' = SendFrame(sending)
    /\ pc' = "decode"
    /\ UNCHANGED <<selectorOpen, outcome, sending>>
    /\ UNCHANGED receiveLocals
    /\ UNCHANGED <<delivered, lastDelivery, ready, skipped, ioSinceReturn, partialSeen,
                   timedOut>>
    /\ UNCHANGED childVars /\ UNCHANGED shutdownVars
    /\ UNCHANGED pipeVars

\* one call of _try_parse_one (lines 131-158)
Decode ==
    /\ pc = "decode"
    /\ \E r \in {TryParseOne(buffer)} :
           /\ buffer' = r.buffer
           /\ outcome' = Outcome("_try_parse_one", IF r.kind = "msg" THEN "ok" ELSE r.kind,
                                 r.msg)
    /\ pc' = "decoded"
    /\ UNCHANGED selectorOpen
    /\ UNCHANGED receiveLocals
    /\ UNCHANGED <<delivered, lastDelivery, ready, skipped, ioSinceReturn, partialSeen,
                   timedOut>>
    /\ UNCHANGED sendVars /\ UNCHANGED childVars /\ UNCHANGED shutdownVars
    /\ UNCHANGED pipeVars

NextCodec == Encode \/ Decode

SpecCodec == InitCodec /\ [][NextCodec]_vars

(***************************************************************************)
(* Properties                                                              *)
(***************************************************************************)

\* ---- C1 ----------------------------------------------------------------
\* C1: round trip.  For every message m, when the buffer holds exactly the
\* frame send() writes for m, one decode attempt returns m (as a dict) and
\* leaves the buffer empty.
RoundTripExact ==
    (pc = "decoded" /\ sent # <<>>) =>
        /\ outcome.kind = "ok"
        /\ outcome.msg = AsDict(sending)
        /\ buffer = <<>>

\* the frame of a message with a body of more than 99 bytes, a key that
\* needs escaping and a string that holds a header terminator has been
\* decoded to the message
RoundTripDone ==
    /\ pc = "decoded" /\ sent # <<>> /\ buffer = <<>>
    /\ outcome = Outcome("_try_parse_one", "ok", AsDict(sending))
    /\ sending = <<[k |-> <<34, 10>>, v |-> JStr(CRLFCRLF)], [k |-> KeyId, v |-> JNum(7)]>>
       \/ (Len(sending) = 2 /\ sending[1].v = JStr(LongString)
           /\ sending[2].v = JStr(LongString) /\ Len(Dumps(sending)) > 99)

\* ---- C5 ----------------------------------------------------------------
\* what the header section at the head of buf declares: whether it is
\* complete, the length it states and where the body starts
Declared(buf) ==
    LET header_end == FindHeaderEnd(buf)
    IN  IF header_end = -1
        THEN [complete |-> FALSE, length |-> [op |-> "none", n |-> 0], body_start |-> 0]
        ELSE [complete |-> TRUE,
              length |-> ParseContentLength(Slice(buf, 0, header_end)),
              body_start |-> BodyStart(buf, header_end)]

\* C5: need more data.  Whenever the buffer holds a complete header that
\* declares Content-Length n and fewer than n bytes after the terminator, a
\* decode attempt returns None, raises nothing and leaves the buffer as it
\* was; a message is returned only when all n bytes of the body are there.
NeedMoreData ==
    (pc = "decoded" /\ frames # <<>>) =>
        LET input == frames[1]
            d == Declared(input)
            short == /\ d.complete
                     /\ d.length.op = "int"
                     /\ Len(input) - d.body_start < d.length.n
        IN  /\ short => (outcome.kind = "none" /\ buffer = input)
            /\ outcome.kind = "ok" =>
                   (d.complete /\ d.length.op = "int"
                    /\ Len(input) - d.body_start >= d.length.n)

\* the header "Content-Length: 10" with 9 of the 10 body bytes was tried
NeedMoreDataSeen ==
    /\ pc = "decoded" /\ outcome.kind = "none"
    /\ frames = <<SubSeq(FrameOf(CRLFCRLF, Body10), 1, Len(FrameOf(CRLFCRLF, Body10)) - 1)>>
    /\ buffer = frames[1]

\* ---- C6 ----------------------------------------------------------------
\* C6: a complete header section in which Content-Length is missing, or
\* has a value int() makes no number of, fails the decode attempt with the
\* transport's own error ("Invalid MCP frame header") and returns nothing.
\* The code does not keep this: see BadLengthCrashes.
BadLengthIsProtocolError ==
    (pc = "decoded" /\ frames # <<>>) =>
        LET d == Declared(frames[1])
        IN  (d.complete /\ d.length.op # "int") => outcome.kind = "header"

\* what does hold of such a header: nothing is returned, and the error is
\* the transport's own unless int() raised
BadLengthFails ==
    (pc = "decoded" /\ frames # <<>>) =>
        LET d == Declared(frames[1])
        IN  (d.complete /\ d.length.op # "int") =>
                /\ outcome.kind \in {"header", "value"}
                /\ outcome.msg = NoMsg
                /\ buffer = frames[1]

\* the header "Content-Length: " with a superscript two has been tried
BadLengthCrashes ==
    /\ pc = "decoded"
    /\ frames = <<Frame(<<67, 111, 110, 116, 101, 110, 116, 45, 76, 101, 110, 103, 116, 104, 58, 32, 194, 178>>, CRLFCRLF, Body8)>>
    /\ outcome.kind = "value"

\* ---- C2 ----------------------------------------------------------------
\* the child writes one frame, as send() would frame a message
SingleFrame == Len(frames) = 1 /\ frames[1] \in WellFormedFrames

\* C2: chunk-boundary independence.  However the bytes of the frame of m
\* are cut into reads, recv_message yields m exactly once: no error, no
\* message while bytes are missing (the buffer keeps what has arrived), m
\* as soon as the whole frame is in the buffer, and nothing after it.
ChunkIndependence ==
    SingleFrame =>
        LET f == frames[1]
        IN  /\ outcome.kind \in {"ok", "running", "timeout", "closed"}
            /\ outcome.kind = "closed" => ~alive
            /\ delivered \in {<<>>, <<MessageOf(f)>>}
            /\ delivered = <<>> =>
                   /\ buffer \in Prefixes(f)
                   /\ alive => buffer \o stream = f
                   /\ pc = "rm_time" => buffer # f
            /\ delivered # <<>> => (buffer = <<>> /\ stream = <<>>)

\* the message of a single frame has been returned after the frame had
\* been seen incomplete in the buffer
ChunkedDelivery ==
    /\ SingleFrame
    /\ pc = "idle" /\ outcome.kind = "ok"
    /\ delivered = <<MessageOf(frames[1])>>
    /\ lastDelivery.split /\ lastDelivery.io

\* ---- C3 ----------------------------------------------------------------
\* every frame of the stream is one send() would write
AllWellFormed == \A i \in 1..Len(frames) : frames[i] \in WellFormedFrames

\* C3: buffered frames need no I/O.  A message whose frame stood complete
\* in the buffer when the call started or when the message before it was
\* returned is returned without any select or read in between, and the
\* messages come in the order of their frames.
BufferedFirst ==
    /\ lastDelivery.ready => ~lastDelivery.io
    /\ AllWellFormed =>
           /\ Len(delivered) <= Len(frames)
           /\ \A i \in 1..Len(delivered) : delivered[i] = MessageOf(frames[i])

\* two frames came in one read, and the second recv_message has returned
\* the second message without I/O
SecondWithoutIo ==
    /\ Len(frames) = 2 /\ AllWellFormed
    /\ pc = "idle" /\ outcome.op = "recv_message" /\ outcome.kind = "ok"
    /\ Len(delivered) = 2 /\ outcome.msg = MessageOf(frames[2])
    /\ lastDelivery.ready /\ ~lastDelivery.io /\ ~lastDelivery.split

\* ---- C4 ----------------------------------------------------------------
\* the message is an object with the member "id" equal to the number id
HasId(msg, id) ==
    /\ msg.type = "obj"
    /\ \E e \in msg.items : e.k = KeyId /\ e.v.type = "num" /\ e.v.num = id

\* C4: the id filter.  While recv_response_for_id(request_id) waits, a
\* decoded message without that id is skipped: no error is raised and the
\* wait goes on for the same id with the same deadline; and a message the
\* call returns has the id request_id.
IdFilter ==
    [][ /\ (caller = "rr" /\ pc' = "idle" /\ outcome'.kind = "ok")
            => HasId(outcome'.msg, requestId)
        /\ (caller = "rr" /\ pc = "rm_parse" /\ Len(delivered') > Len(delivered)
             /\ ~HasId(delivered'[Len(delivered')], requestId))
            => /\ pc' = "rr_check"
               /\ outcome' = outcome
               /\ <<caller', requestId', rrLeft'>> = <<caller, requestId, rrLeft>>
               /\ skipped' = Append(skipped, delivered'[Len(delivered')]) ]_vars

\* a wait for id 1 has skipped the notification and returned the response
SkippedThenMatched ==
    /\ pc = "idle" /\ outcome.op = "recv_response_for_id" /\ outcome.kind = "ok"
    /\ skipped = <<AsDict(Notification)>>
    /\ outcome.msg = AsDict(Response(1))

\* ---- C7 ----------------------------------------------------------------
\* the child writes notifications only: no response to any request
Silent == \A i \in 1..Len(frames) : frames[i] \in UnrelatedFrames

\* C7: timeout, and closable afterwards.  A wait for a response that a
\* living child never writes ends, and with the timeout error; and after a
\* wait that timed out, close() and then _terminate_process run to their
\* end.
TimeoutThenClosable ==
    /\ []((Silent /\ alive /\ pc = "idle" /\ outcome.op = "recv_response_for_id")
            => outcome.kind = "timeout")
    /\ ((caller = "rr") ~> (pc = "idle"))
    /\ ((pc = "idle" /\ timedOut)
            ~> (pc = "idle" /\ ~selectorOpen /\ outcome = Outcome("terminate", "ok", NoMsg)))

\* after a timeout the client was closed and the shutdown went through all
\* its stages
ClosedAfterTimeout ==
    /\ timedOut /\ sent # <<>>
    /\ pc = "idle" /\ ~selectorOpen /\ outcome = Outcome("terminate", "ok", NoMsg)
    /\ "kill" \in {events[i] : i \in 1..Len(events)}

\* ---- C8 ----------------------------------------------------------------
\* the steps of the shutdown so far
Taken == {events[i] : i \in 1..Len(events)}

\* C8: a child that exits by itself within the grace period is never
\* terminated or killed.  The code does not keep this: see
\* TerminateAfterExitInGrace.
NoSignalAfterExitInGrace ==
    exitPhase = "grace" => ("terminate" \notin Taken /\ "kill" \notin Taken)

\* the child exited within the grace period, and proc.terminate() was
\* called all the same
TerminateAfterExitInGrace ==
    /\ exitPhase = "grace"
    /\ events = <<"close_stdin", "terminate">>
    /\ pc = "idle"

\* ---- C9 ----------------------------------------------------------------
\* the order of the escalation
Escalation == <<"close_stdin", "terminate", "wait_timeout", "kill">>

\* C9: the escalation is ordered.  The steps of a shutdown are a leading
\* part of: close stdin, terminate, the wait after it timing out, kill;
\* terminate comes only when the grace period has run out, kill only when
\* the wait has, and only for a child that had not exited by then; SIGKILL
\* is never sent without SIGTERM before it.
EscalationOrder ==
    /\ events \in Prefixes(Escalation)
    /\ (pc = "tp_term" \/ (pc \in {"tp_wait", "tp_kill"} /\ "terminate" \in Taken))
           => graceLeft = 0
    /\ pc = "tp_kill" => waitLeft = 0
    /\ "kill" \in Taken => exitPhase \in {"none", "wait_expired", "killed"}
    /\ "SIGKILL" \in signalled => "SIGTERM" \in signalled

\* a child that ignored everything got the whole escalation
FullEscalation ==
    /\ pc = "idle" /\ events = Escalation
    /\ signalled = {"SIGTERM", "SIGKILL"}
    /\ exitPhase = "none"

\* ---- C10 ---------------------------------------------------------------
\* a lifecycle that is Terminating only while _terminate_process runs
LifecycleByCall ==
    IF ~alive THEN "Exited"
    ELSE IF pc \in {"tp_close", "tp_loop", "tp_poll", "tp_sleep", "tp_term", "tp_wait",
                    "tp_kill"} THEN "Terminating"
    ELSE "Running"

\* the child's lifecycle state: Exited once proc.poll() is not None,
\* Terminating from the closing of its stdin on, Running before
Lifecycle ==
    IF ~alive THEN "Exited"
    ELSE IF ~stdinOpen THEN "Terminating"
    ELSE "Running"

NoOperationBlocksForever == (pc # "idle") ~> (pc = "idle")

\* what does hold: the shutdown always comes to its end
ShutdownReturns == (pc \in {"tp_close", "tp_loop", "tp_poll", "tp_sleep", "tp_term",
                            "tp_wait", "tp_kill"}) ~> (pc = "idle")

\* send stands in its write to the stdin of a living child that has not
\* read the frames written before, and the pipe has no room for the frame
WriteBlocked ==
    /\ pc = "send_write" /\ alive /\ stdinOpen
    /\ ~RoomFor(SendFrame(sending))
    /\ ~ENABLED SendWrite

\* ---- C13 ---------------------------------------------------------------
\* the transport's error as send raises it: the child had exited before
\* the send (line 73), or the pipe was broken under the write (line 83)
TransportError == {"exited", "broken_pipe"}

\* a step in which a call of send comes to its end
SendEnds ==
    /\ pc' = "idle" /\ outcome'.op = "send"
    /\ pc = "send_write" \/ (pc = "idle" /\ outcome' # outcome)

\* C13: send fails with the transport's error, and with no other, whenever
\* the child has already exited or the write to its stdin fails; when the
\* child has already exited nothing is written.  The code does not keep
\* this for the write to a stdin that _terminate_process has closed: see
\* SendOnClosedStdin.
SendFailsWithTransportError ==
    [][SendEnds =>
          /\ outcome'.kind \in TransportError \cup {"ok"}
          /\ (~alive \/ ~stdinOpen) => outcome'.kind \in TransportError
          /\ (pc = "idle" /\ ~alive) => (sent' = sent /\ stdinPipe' = stdinPipe)]_vars

\* what does hold: a send that finds the child exited, or whose write fails
\* in any way, writes nothing
FailedSendWritesNothing ==
    [][(SendEnds /\ outcome'.kind # "ok") => (sent' = sent /\ stdinPipe' = stdinPipe)]_vars

\* send has raised the ValueError of a write to the closed stdin: the
\* shutdown closed stdin and returned from its kill, and the child, not
\* yet dead, was still running when send polled it
SendOnClosedStdin ==
    /\ pc = "idle" /\ outcome = Outcome("send", "closed_file", NoMsg)
    /\ ~stdinOpen /\ "kill" \in Taken

\* ---- C14 ---------------------------------------------------------------
\* the thread stands at the read of line 106 and the read returns b"": the
\* writing end of the child's stdout is closed and the pipe is empty
ReadReturnsNothing == pc = "rm_select" /\ ~Writing /\ stream = <<>>

\* C14: when the buffer holds no complete frame and the read of the child's
\* stdout returns zero bytes, the receive fails with the "stdout closed"
\* error, which carries the exit code of a child that has exited; it does
\* not return a message and does not wait on for the deadline
EofIsConnectionClosed ==
    [][(ReadReturnsNothing /\ pc' # pc) =>
          /\ pc' = "idle" /\ outcome'.kind = "closed"
          /\ delivered' = delivered /\ buffer' = buffer
          /\ ~alive => (returncode # None /\ closedCode' = returncode)
          /\ alive => closedCode' = None]_vars

\* a receive failed with "stdout closed" carrying exit code 1, half a
\* frame in its buffer
ClosedWithCode ==
    /\ pc = "idle" /\ outcome.kind = "closed"
    /\ ~alive /\ closedCode = Some(1)
    /\ buffer # <<>>

\* ---- C15 ---------------------------------------------------------------
\* a step in which a receive fails with a timeout
TimesOut == pc # "idle" /\ pc' = "idle" /\ outcome'.kind = "timeout"

\* the message the running receive has just decoded
Decoded == delivered'[Len(delivered')]

\* C15: a timed-out call leaves the connection usable.  The timeout does
\* not close stdin or the selector, does not signal the child and keeps
\* every byte of the buffer and of the pipe; a later call for another id
\* that returns a message returns the response with its own id, and the
\* late response to the timed-out call is decoded, set aside as unrelated
\* traffic, and the call goes on
TimeoutLeavesUsable ==
    [][ /\ TimesOut =>
              /\ <<stdinOpen', selectorOpen', signalled', alive'>>
                     = <<stdinOpen, selectorOpen, signalled, alive>>
              /\ <<buffer', stream'>> = <<buffer, stream>>
        /\ (caller = "rr" /\ pc' = "idle" /\ outcome'.kind = "ok")
              => outcome'.msg = AsDict(Response(requestId))
        /\ (requestId = 2 /\ pc = "rm_parse" /\ Len(delivered') > Len(delivered)
               /\ Decoded = AsDict(Response(1)))
              => /\ pc' = "rr_check" /\ outcome' = outcome
                 /\ skipped' = Append(skipped, Decoded)
                 /\ <<requestId', rrLeft'>> = <<requestId, rrLeft>> ]_vars

\* the call for id 1 timed out; the call for id 2 after it decoded the
\* late response to request 1, set it aside and returned response 2
LateResponseDiscarded ==
    /\ pc = "idle" /\ outcome = Outcome("recv_response_for_id", "ok", AsDict(Response(2)))
    /\ skipped = <<AsDict(Response(1))>>
    /\ delivered = <<AsDict(Response(1)), AsDict(Response(2))>>

\* ---- C16 ---------------------------------------------------------------
\* the whole of a frame with a body that is no JSON object stands at the
\* head of the buffer
BadBodyAtHead ==
    \E bad \in BadBodyFrames :
        Len(buffer) >= Len(bad) /\ SubSeq(buffer, 1, Len(bad)) = bad

\* the errors of lines 153-156
ProtocolError == {"json", "notobj"}

\* C16: every value recv_message or recv_response_for_id returns is a JSON
\* object; a frame whose body is no JSON, or is an array or a scalar, makes
\* the receive fail with the protocol error: it is not returned and not
\* skipped
OnlyObjectsReturned ==
    /\ [](\A i \in 1..Len(delivered) : delivered[i].type = "obj")
    /\ []((pc = "idle" /\ outcome.kind = "ok"
             /\ outcome.op \in {"recv_message", "recv_response_for_id"})
            => outcome.msg.type = "obj")
    /\ [][(pc = "rm_parse" /\ pc' # pc /\ BadBodyAtHead) =>
             /\ pc' = "idle" /\ outcome'.kind \in ProtocolError
             /\ outcome'.op = ReceiveOp
             /\ delivered' = delivered /\ skipped' = skipped]_vars

\* recv_response_for_id skipped a notification and then failed on a frame
\* whose body is the array [1]
ArrayBodyRejected ==
    /\ pc = "idle" /\ outcome = Outcome("recv_response_for_id", "notobj", NoMsg)
    /\ delivered = <<AsDict(Notification)>>
    /\ frames = <<SendFrame(Notification), FrameOf(CRLFCRLF, <<91, 49, 93>>)>>
    /\ buffer = <<>> /\ stream = <<>>

\* ---- C17 ---------------------------------------------------------------
\* the earliest place in buf where either terminator stands, -1 if none
Earliest(buf) ==
    LET Of(c, l) == IF c = -1 THEN l ELSE IF l = -1 THEN c ELSE Min(c, l)
    IN  Of(Find(buf, CRLFCRLF), Find(buf, LFLF))

\* the length of the terminator that stands at index e of buf
TerminatorAt(buf, e) == IF Slice(buf, e, e + 4) = CRLFCRLF THEN 4 ELSE 2

\* C17: the boundary between header and body is the earliest place in the
\* buffer where CR LF CR LF or LF LF stands, and the body starts right
\* after that terminator: a decode of a buffer whose header, cut there,
\* declares a length takes the body from there, and leaves the buffer alone
\* when the body is not all there.  The code does not keep this when LF LF
\* stands before a CR LF CR LF: see LaterTerminatorUsed.
EarliestTerminatorWins ==
    (pc = "decoded" /\ frames # <<>>) =>
        LET Holds(input, e) ==
                LET Cut(start, length) ==
                        length.op = "int" =>
                            IF Len(input) < start + length.n
                            THEN outcome.kind = "none" /\ buffer = input
                            ELSE /\ buffer = Slice(input, start + length.n, Len(input))
                                 /\ outcome.kind = "ok" =>
                                       outcome.msg
                                         = Loads(Slice(input, start, start + length.n)).v
                IN  e # -1 => Cut(e + TerminatorAt(input, e),
                                  ParseContentLength(Slice(input, 0, e)))
        IN  Holds(frames[1], Earliest(frames[1]))

\* the buffer held the frame of {"id":1} ended by LF LF and after it the
\* frame of {"id":2} ended by CR LF CR LF: the decode returned {"id":2}
\* and emptied the buffer
LaterTerminatorUsed ==
    /\ pc = "decoded"
    /\ frames = <<FrameOf(LFLF, Body8) \o FrameOf(CRLFCRLF, Dumps(Response(2)))>>
    /\ outcome = Outcome("_try_parse_one", "ok", AsDict(Response(2)))
    /\ buffer = <<>>

\* ---- C18 ---------------------------------------------------------------
\* the frames of the child each hold a message, behind either terminator
MessageFrames == WellFormedFrames \cup {FrameOf(LFLF, Dumps(Response(1)))}

AllMessages == \A i \in 1..Len(frames) : frames[i] \in MessageFrames

\* the message in a frame of MessageFrames
Carried(frame) ==
    IF frame \in WellFormedFrames THEN MessageOf(frame) ELSE AsDict(Response(1))

\* the bytes of the first n frames of the child
Consumed(n) == Concat(SubSeq(frames, 1, n))

IsPrefix(a, b) == Len(a) <= Len(b) /\ SubSeq(b, 1, Len(a)) = a

ShutdownReturned == pc = "idle" /\ outcome = Outcome("terminate", "ok", NoMsg)

\* C19: whenever the shutdown returns the child has been reclaimed: it is
\* Exited, be it by itself within the grace period, after the terminate
\* signal or after the kill.  The code does not keep this after the kill:
\* see ReturnedBeforeChildDied.
ReclaimedOnReturn == ShutdownReturned => Lifecycle = "Exited"

\* what does hold: a shutdown that returns without a kill leaves the child
\* Exited
ReclaimedWithoutKill == (ShutdownReturned /\ "kill" \notin Taken) => Lifecycle = "Exited"

\* the shutdown went all the way to proc.kill() and returned; the child,
\* SIGKILL on its way, has not exited
ReturnedBeforeChildDied ==
    /\ ShutdownReturned /\ events = Escalation
    /\ alive /\ "SIGKILL" \in signalled /\ Lifecycle = "Terminating"

\* ---- C20 ---------------------------------------------------------------
\* the child stands in a write to its stderr, the pipe full
BlockedOnStderr == alive /\ diagLeft > 0 /\ Len(stderrPipe) = StderrCapacity

LastOf(lines) == lines[Len(lines)]

\* the state of the main thread and of its client
RequestPath == <<pc, outcome, buffer, selectorOpen, receiveLocals, delivered, skipped,
                 timedOut, sendVars, stdinOpen>>

\* C21: no fault of the pump leaves its thread.  When its loop fails the
\* pump appends one error line to the sink, as the last entry, and ends;
\* a loop that ends without a fault ends at the end of the pipe and appends
\* nothing.  The main thread is where it was, with what it had, after
\* every step of the pump.
PumpFaultContained ==
    /\ [][(pumping /\ ~pumping') =>
             \/ ~alive /\ stderrPipe = <<>> /\ sink' = sink
             \/ /\ sink' # <<>> /\ LastOf(sink') = PumpErrorLine
                /\ Len(sink') \in {Len(sink) + 1, Len(sink) + 2}
                /\ \A i \in 1..(Len(sink') - 1) : sink'[i] # PumpErrorLine]_vars
    /\ [][~pumping => (sink' = sink /\ ~pumping')]_vars
    /\ [][(sink' # sink \/ pumping' # pumping) => RequestPath' = RequestPath]_vars

\* the pump took the child's first line, failed and left its error line
\* as the last of the sink; the receive that was waiting went on and
\* returned the response
ResponseAfterPumpFault ==
    /\ ~pumping /\ alive
    /\ sink = <<DecodeLine(DiagLine(1)), PumpErrorLine>>
    /\ Len(errWritten) = 2
    /\ pc = "idle" /\ outcome = Outcome("recv_response_for_id", "ok", AsDict(Response(1)))

\* ---- C30 ---------------------------------------------------------------
\* the sink without the error line of the pump at its end
ChildLines(lines) ==
    IF lines # <<>> /\ LastOf(lines) = PumpErrorLine
    THEN SubSeq(lines, 1, Len(lines) - 1) ELSE lines

\* C30: the sink is ordered and append-only.  At every moment its lines,
\* the error line of the pump at its end left aside, are the first of the
\* lines the child has written to stderr, decoded, in the order written;
\* a step only appends to the sink, and only a step of the running pump
\* changes it.
SinkOrderedAppendOnly ==
    /\ [](/\ Len(ChildLines(sink)) <= Len(errWritten)
          /\ \A i \in 1..Len(ChildLines(sink)) :
                 ChildLines(sink)[i] = DecodeLine(errWritten[i]))
    /\ [][/\ Len(sink) <= Len(sink') /\ SubSeq(sink', 1, Len(sink)) = sink
          /\ sink' # sink => (pumping /\ RequestPath' = RequestPath
                               /\ errWritten' = errWritten)]_vars

\* the pump, still running, has appended every line of a child that wrote
\* more lines than the pipe holds, a line that is no UTF-8 among them
AllLinesInOrder ==
    /\ pumping /\ Len(sink) = MaxDiag /\ MaxDiag > StderrCapacity
    /\ sink = [i \in 1..MaxDiag |-> DecodeLine(DiagLine(i))]
    /\ sink[2][1] = 65533

\* ---- C22 ---------------------------------------------------------------
\* a step in which close() is called and returns
CloseStep ==
    /\ pc = "idle" /\ pc' = "idle" /\ outcome'.op = "close"
    /\ outcome' # outcome \/ selectorOpen' # selectorOpen

\* close() has returned and nothing was called since
CloseReturned == pc = "idle" /\ outcome.op = "close"

\* all of the state but the selector and the outcome of the last call
BesideSelector ==
    <<receiveLocals, receiveVars, sendVars, childVars, shutdownVars, pipeVars>>

\* C22: close() is idempotent.  It can be called in every state between
\* two calls, it never raises, it closes the selector and leaves all else
\* alone, and called again after itself it leaves the client exactly as
\* the first call left it.
CloseIdempotent ==
    /\ [](pc = "idle" => ENABLED Close)
    /\ [][CloseStep =>
             /\ outcome' = Outcome("close", "ok", NoMsg)
             /\ ~selectorOpen'
             /\ BesideSelector' = BesideSelector]_vars
    /\ [](CloseReturned =>
             /\ outcome.kind = "ok" /\ ~selectorOpen
             /\ ENABLED (Close /\ UNCHANGED vars)
             /\ ~ENABLED (Close /\ vars' # vars))

\* close() has returned after the shutdown of a child that has exited; a
\* second close() can be made and changes nothing
ClosedAfterShutdownAndFailure ==
    /\ CloseReturned /\ ~selectorOpen
    /\ ~alive /\ ~stdinOpen /\ events # <<>>
    /\ ENABLED (Close /\ UNCHANGED vars)

\* ---- C23 ---------------------------------------------------------------
\* a step in which _terminate_process is called
ShutdownCalled == pc = "idle" /\ outcome' # outcome /\ outcome'.op = "terminate"

\* C23: the shutdown of a child that has already exited is a no-op: it
\* returns at once, does not close stdin, does not wait and sends no
\* signal.
ShutdownOfExitedIsNoOp ==
    [][(ShutdownCalled /\ ~alive) =>
          /\ pc' = "idle" /\ outcome' = Outcome("terminate", "ok", NoMsg)
          /\ events' = <<>>
          /\ <<stdinOpen', signalled', selectorOpen'>> = <<stdinOpen, signalled, selectorOpen>>
          /\ <<receiveVars', sendVars', childVars', pipeVars'>>
                = <<receiveVars, sendVars, childVars, pipeVars>>]_vars

\* the child exited by itself, the shutdown was called after and has
\* returned: stdin is open and no step of the escalation was taken
NothingDoneToExited ==
    /\ ShutdownReturned /\ ~alive /\ exitPhase = "running"
    /\ stdinOpen /\ events = <<>> /\ signalled = {}


\* ---------------------------------------------------------------------
\* C24: shutdown never propagates an error.  Whether a guarded step
\* (closing stdin, terminate, wait, kill) succeeds or raises, also when the
\* child it signals is already dead, the function moves on to the next step
\* of the escalation, its outcome is never anything but a normal return,
\* and it does return.
InShutdown == pc \in {"tp_close", "tp_loop", "tp_poll", "tp_sleep", "tp_term",
                      "tp_wait", "tp_kill"}

NextEscalation(at) ==
    CASE at = "tp_close" -> {"tp_loop"}
      [] at = "tp_term" -> {"tp_wait"}
      [] at = "tp_wait" -> {"tp_kill", "idle"}
      [] at = "tp_kill" -> {"idle"}
      [] OTHER -> {"tp_loop", "tp_poll", "tp_sleep", "tp_term", "idle"}

ShutdownSwallowsFailures ==
    /\ [](outcome.op = "terminate" => outcome.kind \in {"running", "ok"})
    /\ [][(InShutdown /\ pc' # pc) => pc' \in NextEscalation(pc)]_vars
    /\ [][(InShutdown /\ pc' = "idle") => outcome' = Outcome("terminate", "ok", NoMsg)]_vars
    /\ InShutdown ~> ShutdownReturned

\* every guarded step has failed: stdin is still open, nothing was
\* signalled to the living child, and shutdown has returned normally
ReturnedAfterEveryStepFailed ==
    /\ ShutdownReturned
    /\ events = <<"close_stdin", "terminate", "wait_timeout", "kill">>
    /\ alive
    /\ stdinOpen
    /\ signalled = {}


\* ---------------------------------------------------------------------
\* C25: at most one request is in flight.  A request is in flight from the
\* moment its frame is written to stdin until a message carrying its id has
\* been decoded for the caller; a run that failed writes nothing more.  At
\* no time are two requests in flight, a request frame is written only when
\* none is, and no frame is written while a receive call is running.
RequestFrames == [i \in RequestIds |-> SendFrame(Request(i))]

Written(i) == \E j \in 1..Len(sent) : sent[j] = RequestFrames[i]

Answered(i) == \E j \in 1..Len(delivered) : HasId(delivered[j], i)

InFlight == {i \in RequestIds : Written(i) /\ ~Answered(i)}

OneRequestInFlight ==
    /\ [](Cardinality(InFlight) <= 1)
    /\ [][(sent' # sent) =>
             /\ pc = "send_write" /\ pc' = "idle"
             /\ sent' = Append(sent, SendFrame(sending))
             /\ (sending \in {Request(i) : i \in RequestIds} => InFlight = {})]_vars
    /\ [](pc \in (InExchange \ {"send_write"}) => sending = <<>>)

\* request 2 is on its way, written after the answer to request 1 came back
SecondRequestAfterFirstAnswer ==
    /\ InFlight = {2}
    /\ Answered(1)
    /\ caller = "rr" /\ requestId = 2 /\ pc = "rm_select"


\* ---------------------------------------------------------------------
\* C26: the transport never retries.  A call writes its frame at most once
\* (no frame occurs twice on stdin, and a receive call writes nothing);
\* once a send or a receive has failed, with a timeout, a protocol error,
\* a connection error or a closed connection, nothing more is written and
\* no send or receive is started again.
Failed == pc = "idle" /\ outcome.kind \notin {"ok", "running"}

NoExchangeAfter == sent' = sent /\ pc' \notin InExchange

NeverRetries ==
    /\ [](\A i, j \in 1..Len(sent) : sent[i] = sent[j] => i = j)
    /\ [][Len(sent') <= Len(sent) + 1]_vars
    /\ [][(pc \in (InExchange \ {"send_write"})) => sent' = sent]_vars
    /\ [][Failed => (NoExchangeAfter /\ (Failed' \/ ~selectorOpen'))]_vars
    /\ [][(~selectorOpen /\ pc # "idle") => pc' \notin InExchange]_vars
    /\ [][(~selectorOpen /\ outcome.op \in {"close", "terminate"})
             => (NoExchangeAfter /\ ~selectorOpen' /\ outcome'.op \in {"close", "terminate"})]_vars

\* the receive for request 1 timed out and the run is over: the request
\* was written once and nothing after it
OneFrameAfterTimeout ==
    /\ pc = "exited"
    /\ timedOut
    /\ sent = <<RequestFrames[1]>>
    /\ ~Answered(1)


\* ---------------------------------------------------------------------
\* C27: sending a notification is fire-and-forget.  The message carries no
\* id; the send goes from its liveness check to its write and back to the
\* caller without entering a receive; a send that succeeds has appended
\* exactly one frame, the whole frame of the message, to stdin; and
\* neither step of the send takes a byte from stdout or touches the
\* receive buffer or anything else the receive path keeps.
SendSteps == (pc = "idle" /\ pc' = "send_write") \/ (pc = "send_write" /\ pc' = "idle")

OneWholeFrame(bytes, message) ==
    TryParseOne(bytes) = ParseResult("msg", AsDict(message), <<>>)

NotificationFireAndForget ==
    /\ [](\A i \in RequestIds : ~HasId(AsDict(Notification), i))
    /\ [][(pc = "send_write" /\ pc' # pc) => pc' = "idle"]_vars
    /\ [][SendSteps => /\ receiveVars' = receiveVars
                       /\ receiveLocals' = receiveLocals
                       /\ stream' = stream /\ frames' = frames]_vars
    /\ [][(pc = "idle" /\ pc' = "send_write") => sent' = sent]_vars
    /\ [][(pc = "send_write" /\ sending = Notification /\ pc' = "idle"
             /\ outcome'.kind = "ok")
            => /\ Len(sent') = Len(sent) + 1
               /\ SubSeq(sent', 1, Len(sent)) = sent
               /\ OneWholeFrame(sent'[Len(sent')], Notification)]_vars

\* the notification has been sent while received bytes sit in the buffer
\* and stdout holds more: both are as the send found them
NotificationSentOverPendingInput ==
    /\ Succeeded("send")
    /\ Len(sent) = 2
    /\ OneWholeFrame(sent[2], Notification)
    /\ buffer # <<>>
    /\ stream # <<>>


\* ---------------------------------------------------------------------
\* C28: unrelated traffic cannot postpone the timeout.  The time left to
\* recv_response_for_id is set once, at entry, and no step of the call,
\* the discarding of a frame included, ever raises it; each recv_message
\* is handed exactly what is left at that moment, never more than the
\* timeout of the call; with no time left the loop raises the timeout.  So a call that a living server feeds
\* only frames of other ids always ends, and ends with the timeout.
InResponseWait == caller = "rr" /\ pc \in {"rr_check", "rm_enter", "rm_parse", "rm_time",
                                            "rm_select"}

TimedOutWaiting == pc = "idle" /\ outcome = Outcome("recv_response_for_id", "timeout", NoMsg)

TrafficCannotPostponeTimeout ==
    /\ [][InResponseWait => rrLeft' <= rrLeft]_vars
    /\ [][(InResponseWait /\ skipped' # skipped)
             => (rrLeft' = rrLeft /\ rmLeft' = rmLeft /\ pc' = "rr_check")]_vars
    /\ [][(pc = "rr_check" /\ pc' # pc)
             => IF rrLeft <= 0 THEN TimedOutWaiting'
                ELSE pc' = "rm_enter" /\ timeoutArg' = rrLeft]_vars
    /\ [](InResponseWait => (rmLeft <= TimeoutTicks /\ timeoutArg <= TimeoutTicks))
    /\ InResponseWait ~> TimedOutWaiting

\* the wait timed out after it had discarded two frames, and the server
\* has more of them to offer
TimedOutAmidTraffic ==
    /\ TimedOutWaiting
    /\ Len(skipped) >= 2
    /\ \A i \in 1..Len(skipped) : ~HasId(skipped[i], 1)
    /\ stream # <<>>
    /\ alive


\* ---------------------------------------------------------------------
\* C29: only shutdown changes the child's lifecycle.  The child's stdin is
\* closed and a signal is sent to it by the closing, terminating and
\* killing steps of _terminate_process and by nothing else: no step of
\* send, recv_message, recv_response_for_id or close, whether it succeeds
\* or fails, does either.  A close in particular leaves the child, its
\* lifecycle state and the receive buffer as they were.
ShutdownActs == pc \in {"tp_close", "tp_term", "tp_kill"}

ClientStep == pc' # pc \/ outcome' # outcome \/ selectorOpen' # selectorOpen

OnlyShutdownChangesLifecycle ==
    /\ [][(stdinOpen' # stdinOpen \/ signalled' # signalled) => ShutdownActs]_vars
    /\ [][(ClientStep /\ ~InShutdown /\ pc' \notin {"tp_close"})
             => (Lifecycle' = Lifecycle /\ alive' = alive /\ shutdownVars' = shutdownVars)]_vars
    /\ [][(ClientStep /\ ~InShutdown /\ pc' = "tp_close")
             => (Lifecycle' = Lifecycle /\ stdinOpen' = stdinOpen /\ signalled' = signalled)]_vars
    /\ [][CloseStep => (Lifecycle' = Lifecycle /\ buffer' = buffer
                        /\ childVars' = childVars /\ stdinOpen' = stdinOpen)]_vars

\* the client has been closed after a failed receive: the child is
\* Running, its stdin open and unsignalled, and the bytes received so far
\* are still in the buffer
ClosedWithChildRunning ==
    /\ CloseReturned
    /\ ~selectorOpen
    /\ Lifecycle = "Running"
    /\ signalled = {}
    /\ buffer # <<>>
    /\ sent # <<>>


\* ---------------------------------------------------------------------
\* C31: the handshake goes strictly in order.  What has been written to
\* stdin is always a beginning of: initialize (id 1), the initialized
\* notification, tools/list (id 2), resources/list (id 3).  The
\* notification is not written before the answer to id 1 has been received
\* and has passed its validation, nor resources/list before the answer to
\* id 2 has; and once any step has failed, a send, a receive or a
\* validation, no further frame is written.
HandshakeFrames ==
    <<SendFrame(Request(1)), SendFrame(Notification), SendFrame(Request(2)),
      SendFrame(Request(3))>>

\* the message recv_response_for_id(i) returned: the first one with that id
Returned(i) ==
    LET at == {j \in 1..Len(delivered) : HasId(delivered[j], i)}
    IN  IF at = {} THEN None
        ELSE Some(delivered[CHOOSE j \in at : \A h \in at : j <= h])

ValidatedStep(n, i) == Returned(i) # None /\ Validates(n, Returned(i)[1])

HandshakeInOrder ==
    /\ [](\E n \in 0..4 : sent = SubSeq(HandshakeFrames, 1, n))
    /\ [](Len(sent) >= 2 => ValidatedStep(1, 1))
    /\ [](Len(sent) >= 4 => ValidatedStep(3, 2))
    /\ [][(pc = "idle" /\ outcome.kind # "ok")
             => (sent' = sent /\ pc' \notin InExchange
                 /\ (outcome'.kind # "ok" \/ ~selectorOpen'))]_vars
    /\ [][~selectorOpen => (sent' = sent /\ ~selectorOpen')]_vars

\* the whole handshake has gone through
HandshakeCompleted ==
    /\ Succeeded("validate")
    /\ sent = HandshakeFrames
    /\ ValidatedStep(1, 1) /\ ValidatedStep(3, 2) /\ ValidatedStep(4, 3)
    /\ selectorOpen

\* the answer to tools/list was rejected and the run is over: three frames
\* were written and resources/list never was
StoppedAtToolsList ==
    /\ pc = "exited"
    /\ Len(sent) = 3
    /\ ValidatedStep(1, 1)
    /\ Returned(2) # None /\ ~Validates(3, Returned(2)[1])


\* ---------------------------------------------------------------------
\* C32: stream-level chunk independence.  For a stream of well-formed
\* frames, each ended by CR LF CR LF or by LF LF, and however it is cut
\* into chunks, the messages the receives decode are the framed messages in
\* order, none lost and none merged (so any two cuttings give the same
\* sequence), and no receive fails with a protocol error.
FramedMessage(frame) ==
    AsDict(CHOOSE m \in {Response(i) : i \in RequestIds} :
               \E t \in Terminators : frame = FrameOf(t, Dumps(m)))

ReferenceDecoding == [i \in 1..Len(frames) |-> FramedMessage(frames[i])]

StreamChunkIndependence ==
    /\ \E n \in 0..Len(frames) : delivered = SubSeq(ReferenceDecoding, 1, n)
    /\ outcome.kind \in {"ok", "running", "timeout", "closed"}

\* the same, for every stream but the one in which an LF LF frame is
\* followed by a CR LF CR LF frame
ChunkIndependenceUnlessLfThenCrlf ==
    frames # <<FrameOf(LFLF, Dumps(Response(1))), FrameOf(CRLFCRLF, Dumps(Response(2)))>>
        => StreamChunkIndependence

\* an LF LF frame and a CR LF CR LF frame arrived in one piece: the only
\* message decoded is the second one, and nothing is left of the first
FirstMessageLostInOneChunk ==
    /\ frames = <<FrameOf(LFLF, Dumps(Response(1))), FrameOf(CRLFCRLF, Dumps(Response(2)))>>
    /\ delivered = <<AsDict(Response(2))>>
    /\ buffer = <<>> /\ stream = <<>>
    /\ pc = "idle"

\* the same stream cut between its frames: both messages, in order
BothDecodedWhenCutBetween ==
    /\ frames = <<FrameOf(LFLF, Dumps(Response(1))), FrameOf(CRLFCRLF, Dumps(Response(2)))>>
    /\ delivered = <<AsDict(Response(1)), AsDict(Response(2))>>
    /\ buffer = <<>> /\ stream = <<>>
    /\ pc = "idle"


\* ---------------------------------------------------------------------
\* C33: every decoded message is handed over exactly once.  A decode
\* takes its frame out of what is still to be read and then does one of
\* two things: it returns the message to the caller of the receive in
\* progress, or (awaiting another id) it discards it.  A receive returns
\* no message other than the one just decoded, and there are never more
\* decodes than frames the server wrote.  The bytes of a message handed
\* over are gone, so one that was discarded is never returned later, and
\* none is returned twice.
Decodes == Len(delivered') > Len(delivered)

ReturnsMessage ==
    /\ pc # "idle" /\ pc' = "idle"
    /\ outcome'.op \in {"recv_message", "recv_response_for_id"}
    /\ outcome'.kind = "ok"

Unread == buffer \o stream

HandedOverOnce ==
    /\ [][Decodes =>
             /\ Len(delivered') = Len(delivered) + 1
             /\ SubSeq(delivered', 1, Len(delivered)) = delivered
             /\ Len(Unread') < Len(Unread)
             /\ Unread' = SubSeq(Unread, Len(Unread) - Len(Unread') + 1, Len(Unread))
             /\ \/ ReturnsMessage /\ skipped' = skipped
                \/ /\ pc' = "rr_check" /\ outcome' = outcome
                   /\ skipped' = Append(skipped, Decoded)
                   /\ ~HasId(Decoded, requestId)]_vars
    /\ [][ReturnsMessage => (Decodes /\ outcome'.msg = Decoded)]_vars
    /\ [][(skipped' # skipped /\ skipped' # <<>>) => Decodes]_vars
    /\ [](Len(delivered) <= Len(frames))

\* two messages were discarded while id 2 was awaited, and a later wait
\* for id 1 found nothing to return
DiscardedIsGone ==
    /\ delivered = <<AsDict(Notification), AsDict(Response(1))>>
    /\ outcome = Outcome("recv_response_for_id", "timeout", NoMsg)
    /\ skipped = <<>>
    /\ Unread = <<>>
    /\ alive


\* ---------------------------------------------------------------------
\* C34: a header protocol error consumes nothing.  The decode that fails
\* on the header section (Content-Length missing or not usable) leaves the
\* buffer as it was.  From then on the buffer never changes again: every
\* receive fails at its first decode, in the same way, before any wait or
\* read on stdout, whatever the server has written since; no message is
\* ever returned again.
HeaderBroken == TryParseOne(buffer).kind \in {"header", "value"}

HeaderErrorConsumesNothing ==
    /\ [][(pc = "rm_parse" /\ HeaderBroken)
             => /\ buffer' = buffer
                /\ pc' \in {"rm_parse", "idle"}
                /\ pc' = "idle" => /\ outcome'.kind = TryParseOne(buffer).kind
                                   /\ outcome'.msg = NoMsg
                                   /\ ioSinceReturn' = ioSinceReturn]_vars
    /\ [][HeaderBroken => (buffer' = buffer /\ delivered' = delivered
                           /\ pc' \notin {"rm_time", "rm_select"})]_vars
    /\ [][(HeaderBroken /\ pc # "idle" /\ pc' = "idle")
             => outcome'.kind \in {TryParseOne(buffer).kind, "timeout"}]_vars
    /\ [][(HeaderBroken /\ pc # "idle" /\ pc' = "idle" /\ caller = "direct")
             => outcome'.kind = TryParseOne(buffer).kind]_vars

\* the second receive has failed on the header like the first; the answer
\* the server wrote after the bad frame is in the buffer, where it stays
SecondReceiveFailsAlike ==
    /\ outcome = Outcome("recv_message", "header", NoMsg)
    /\ pc = "idle"
    /\ \E bad \in HeaderErrorFrames : buffer = bad \o SendFrame(Response(1))
    /\ stream = <<>>


\* ---------------------------------------------------------------------
\* C35: a body protocol error consumes the offending frame.  The decode
\* that fails on the body of a complete frame (no JSON, or JSON that is no
\* object) has removed exactly that frame, header and body, from the front
\* of the buffer, so that what the failed receive leaves in the buffer
\* begins with the first byte after the frame; the next receive goes on
\* from there and can return the message that follows.
BodyErrorConsumesFrame ==
    /\ [][(pc = "rm_parse" /\ pc' # pc /\ BadBodyAtHead) =>
             \E bad \in BadBodyFrames :
                 /\ Len(buffer) >= Len(bad)
                 /\ SubSeq(buffer, 1, Len(bad)) = bad
                 /\ buffer' = SubSeq(buffer, Len(bad) + 1, Len(buffer))
                 /\ outcome'.kind \in ProtocolError /\ pc' = "idle"]_vars
    /\ []((pc = "idle" /\ outcome.kind \in ProtocolError /\ Len(frames) = 2
             /\ frames[1] \in BadBodyFrames)
            => /\ \E n \in 0..Len(frames[2]) : buffer = SubSeq(frames[2], 1, n)
               /\ delivered = <<>>
               /\ selectorOpen)

\* after the receive that failed on a bad body, a receive has returned the
\* message of the frame behind it
MessageAfterBadBodyReturned ==
    /\ Len(frames) = 2 /\ frames[1] \in BadBodyFrames /\ frames[2] = SendFrame(Response(1))
    /\ pc = "idle"
    /\ outcome.kind = "ok" /\ outcome.msg = AsDict(Response(1))
    /\ delivered = <<AsDict(Response(1))>>
    /\ buffer = <<>> /\ stream = <<>>

\* ---------------------------------------------------------------------
\* the child's stdout is at its end: nothing is left in the pipe and
\* nothing will be written
AtEndOfStream == ~Writing /\ stream = <<>>

\* the message of the i-th frame the child set out to write
MessageOfFrame(i) == TryParseOne(frames[i]).msg

\* a receive fails with the connection-closed error
ReportsClosed == outcome'.kind = "closed" /\ (outcome.kind # "closed" \/ pc # "idle")

\* C36: frames received before the end of the child's stdout are not lost
\* to it.  A receive that starts with a complete frame in the buffer while
\* the stream is at its end decodes that frame, and recv_message returns
\* it; only a receive whose buffer holds no complete frame reports the
\* connection as closed, and it leaves the buffer and the decoded messages
\* as they are; when the connection is reported closed the messages
\* decoded are those of the first frames in order, and what is left in the
\* buffer is an incomplete beginning of the next frame.
BufferedFramesSurviveEof ==
    /\ [][ReportsClosed =>
             /\ pc = "rm_select" /\ AtEndOfStream
             /\ TryParseOne(buffer).kind = "none"
             /\ buffer' = buffer /\ delivered' = delivered
             /\ pc' = "idle"]_vars
    /\ [][(pc = "rm_parse" /\ pc' # pc /\ AtEndOfStream /\ FrameReady(buffer)) =>
             /\ delivered' = Append(delivered, TryParseOne(buffer).msg)
             /\ outcome'.kind # "closed"
             /\ caller = "direct" =>
                    /\ pc' = "idle" /\ outcome'.kind = "ok"
                    /\ outcome'.msg = TryParseOne(buffer).msg]_vars
    /\ []((pc = "idle" /\ outcome.kind = "closed") =>
            \E n \in 0..Len(frames) :
                /\ delivered = [i \in 1..n |-> MessageOfFrame(i)]
                /\ IF n = Len(frames)
                   THEN buffer = <<>>
                   ELSE /\ Len(buffer) < Len(frames[n + 1])
                        /\ buffer = SubSeq(frames[n + 1], 1, Len(buffer)))

\* the child wrote two frames and exited; both messages were returned and
\* the receive after them reported the connection closed
BufferedMessagesThenClosed ==
    /\ Len(frames) = 2 /\ ~alive
    /\ pc = "idle" /\ outcome.op = "recv_message" /\ outcome.kind = "closed"
    /\ delivered = <<MessageOfFrame(1), MessageOfFrame(2)>>
    /\ skipped = <<>>
    /\ buffer = <<>>

\* the second message was returned from the buffer, no read having run,
\* with the child gone and the pipe empty
SecondMessageFromBufferAtEof ==
    /\ Len(frames) = 2 /\ ~alive /\ stream = <<>>
    /\ pc = "idle" /\ outcome.op = "recv_message" /\ outcome.kind = "ok"
    /\ outcome.msg = MessageOfFrame(2)
    /\ lastDelivery.ready /\ ~lastDelivery.io
    /\ delivered = <<MessageOfFrame(1), MessageOfFrame(2)>>

====
